---- MODULE Spec2Model ----
(***************************************************************************)
(* Model of the autocompletion engine: the Trie (Trie.py), the scorer      *)
(* (calculate_score.py) and the query orchestration of AutoCompleteSystem  *)
(* (main.py).                                                              *)
(*                                                                         *)
(* Strings are sequences of one-character strings, the characters being    *)
(* those below U+0100.  Python indices are                                 *)
(* 0-based and kept 0-based in the values the code stores (position,       *)
(* offset, DataFrame index); sequences are indexed with index + 1.         *)
(***************************************************************************)
EXTENDS Integers, Sequences, FiniteSets, TLC

VARIABLES words_trie, sentences_df, is_initialized, calls, inp, out

vars == <<words_trie, sentences_df, is_initialized, calls, inp, out>>

(***************************************************************************)
(* Characters and the str methods the code uses.                           *)
(***************************************************************************)
Lowercase ==
  << "a", "b", "c", "d", "e", "f", "g", "h", "i", "j", "k", "l", "m",
     "n", "o", "p", "q", "r", "s", "t", "u", "v", "w", "x", "y", "z" >>

\* the characters below U+0100 that str.lower() changes: the ASCII capitals,
\* then the capitals of Latin-1
Uppercase ==
  << "A", "B", "C", "D", "E", "F", "G", "H", "I", "J", "K", "L", "M",
     "N", "O", "P", "Q", "R", "S", "T", "U", "V", "W", "X", "Y", "Z",
     "À", "Á", "Â", "Ã", "Ä", "Å", "Æ", "Ç", "È", "É", "Ê", "Ë", "Ì",
     "Í", "Î", "Ï", "Ð", "Ñ", "Ò", "Ó", "Ô", "Õ", "Ö", "Ø", "Ù", "Ú",
     "Û", "Ü", "Ý", "Þ" >>

\* Uppercase[i].lower()
Lowered ==
  << "a", "b", "c", "d", "e", "f", "g", "h", "i", "j", "k", "l", "m",
     "n", "o", "p", "q", "r", "s", "t", "u", "v", "w", "x", "y", "z",
     "à", "á", "â", "ã", "ä", "å", "æ", "ç", "è", "é", "ê", "ë", "ì",
     "í", "î", "ï", "ð", "ñ", "ò", "ó", "ô", "õ", "ö", "ø", "ù", "ú",
     "û", "ü", "ý", "þ" >>

\* the letters below U+0100 that str.lower() leaves as they are and that
\* are not the lower case of another character below U+0100
OtherLetters == { "ª", "µ", "º", "ß", "ÿ" }

\* U+0060, the grave accent.  A TLA+ string cannot hold it on its own (it
\* opens a quotation that an apostrophe must close), so the character is
\* written with the apostrophe that closes it; no other character of the
\* model is written with two.
Backquote == "`'"

\* string.punctuation
Punctuation ==
  { "!", "\"", "#", "$", "%", "&", "'", "(", ")", "*", "+", ",", "-", ".",
    "/", ":", ";", "<", ">", "=", "?", "@", "[", "\\", "]", "^", "_",
    Backquote, "{", "|", "}", "~" }

\* the characters below U+0100 that str.strip() and str.split() treat as
\* white space: space, \t, \n, \r, \f, U+000B, U+001C to U+001F, U+0085
\* and U+00A0
Whitespace ==
  { " ", "\t", "\n", "\r", "\f", "", "", "", "", "",
    "", " " }

Range(s) == { s[i] : i \in DOMAIN s }

\* the characters below U+0100 for which c.isalpha() holds
Alphabetic == Range(Uppercase) \cup Range(Lowered) \cup OtherLetters

\* c.isalpha(), for a character below U+0100
isalpha(c) == c \in Alphabetic

\* the characters below U+0100 that str.lower() changes, each with the
\* character it becomes
LowerOf ==
  [ c \in Range(Uppercase) |->
      Lowered[CHOOSE i \in DOMAIN Uppercase : Uppercase[i] = c] ]

LowerChar(c) == IF c \in DOMAIN LowerOf THEN LowerOf[c] ELSE c

\* str.lower()
lower(s) == [i \in 1..Len(s) |-> LowerChar(s[i])]

RECURSIVE lstrip(_)
lstrip(s) ==
  IF s # <<>> /\ Head(s) \in Whitespace THEN lstrip(Tail(s)) ELSE s

RECURSIVE rstrip(_)
rstrip(s) ==
  IF s # <<>> /\ s[Len(s)] \in Whitespace
    THEN rstrip(SubSeq(s, 1, Len(s) - 1))
    ELSE s

\* str.strip()
strip(s) == rstrip(lstrip(s))

\* str.split(): the maximal runs of non-white-space characters, in order.
\* split_from(s, cur) is the split of s with the word cur already begun.
RECURSIVE split_from(_, _)
split_from(s, cur) ==
  IF s = <<>>
    THEN IF cur = <<>> THEN <<>> ELSE << cur >>
    ELSE IF Head(s) \in Whitespace
           THEN IF cur = <<>>
                  THEN split_from(Tail(s), <<>>)
                  ELSE << cur >> \o split_from(Tail(s), <<>>)
           ELSE split_from(Tail(s), Append(cur, Head(s)))

split(s) == split_from(s, <<>>)

\* str.split(sep) for a one-character separator: every separator cuts,
\* empty pieces are kept.
RECURSIVE split_on_from(_, _, _)
split_on_from(s, sep, cur) ==
  IF s = <<>>
    THEN << cur >>
    ELSE IF Head(s) = sep
           THEN << cur >> \o split_on_from(Tail(s), sep, <<>>)
           ELSE split_on_from(Tail(s), sep, Append(cur, Head(s)))

split_on(s, sep) == split_on_from(s, sep, <<>>)

\* the join of words with single spaces
RECURSIVE join(_)
join(words) ==
  IF words = <<>> THEN <<>>
  ELSE IF Len(words) = 1 THEN words[1]
  ELSE words[1] \o << " " >> \o join(Tail(words))

\* str.translate(punctuation_translator): drops every punctuation character
translate(s) == SelectSeq(s, LAMBDA c : c \notin Punctuation)

\* x in list
Contains(seq, x) == \E i \in DOMAIN seq : seq[i] = x

(***************************************************************************)
(* Trie.py.  A Trie is [root, total_words, total_nodes]; root is the node  *)
(* store, a function from the path of a node (the characters from the      *)
(* root) to the TrieNode; the root node has the empty path.  children is   *)
(* the list of the node's child keys in creation order; sentences_id is a  *)
(* function from sentence id to the list of positions.                     *)
(***************************************************************************)
TrieNode(char) ==
  [ char |-> char, children |-> <<>>, sentences_id |-> <<>>,
    is_end_of_word |-> FALSE ]

NewTrie ==
  [ root |-> (<<>> :> TrieNode("")), total_words |-> 0, total_nodes |-> 1 ]

add_sentence(node, sentence_id, position) ==
  LET d    == node.sentences_id
      base == IF sentence_id \notin DOMAIN d
                THEN (sentence_id :> <<>>) @@ d
                ELSE d
  IN  [ node EXCEPT
          !.sentences_id = [ base EXCEPT ![sentence_id] = Append(@, position) ] ]

\* a plausible slip: total_nodes is incremented for every character, also
\* when the child exists
RECURSIVE insert_walk_counting(_, _, _)
insert_walk_counting(t, word, k) ==
  IF k = 0 THEN t
  ELSE LET prev   == insert_walk_counting(t, word, k - 1)
           parent == SubSeq(word, 1, k - 1)
           path   == SubSeq(word, 1, k)
           char   == word[k]
       IN  IF ~Contains(prev.root[parent].children, char)
             THEN [ prev EXCEPT
                      !.root = (path :> TrieNode(char)) @@
                               [ @ EXCEPT ![parent].children = Append(@, char) ],
                      !.total_nodes = @ + 1 ]
             ELSE [ prev EXCEPT !.total_nodes = @ + 1 ]

\* The loop of insert over the first k characters of word (already
\* normalized): creates the missing child of each node on the path.
RECURSIVE insert_walk(_, _, _)
insert_walk(t, word, k) ==
  IF k = 0 THEN t
  ELSE LET prev   == insert_walk(t, word, k - 1)
           parent == SubSeq(word, 1, k - 1)
           path   == SubSeq(word, 1, k)
           char   == word[k]
       IN  IF ~Contains(prev.root[parent].children, char)
             THEN [ prev EXCEPT
                      !.root = (path :> TrieNode(char)) @@
                               [ @ EXCEPT ![parent].children = Append(@, char) ],
                      !.total_nodes = @ + 1 ]
             ELSE prev

\* a plausible slip: the position is recorded but the node is not flagged
insert_mark_unflagged(t, node, sentence_id, position) ==
  [ t EXCEPT
      !.root[node] = add_sentence(@, sentence_id, position),
      !.total_words = @ + 1 ]

\* a plausible slip: total_words counts a word only the first time it is
\* inserted
insert_mark_distinct(t, node, sentence_id, position) ==
  [ t EXCEPT
      !.root[node] = add_sentence([ @ EXCEPT !.is_end_of_word = TRUE ],
                                  sentence_id, position),
      !.total_words = IF t.root[node].is_end_of_word THEN @ ELSE @ + 1 ]

insert_mark(t, node, sentence_id, position) ==
  [ t EXCEPT
      !.root[node] = add_sentence([ @ EXCEPT !.is_end_of_word = TRUE ],
                                  sentence_id, position),
      !.total_words = @ + 1 ]

\* a plausible slip: the second early return is missing and the word is
\* indexed without trimming
insert_untrimmed(t, word, sentence_id, position) ==
  IF word = <<>> THEN t
  ELSE LET w == lower(word)
       IN  insert_mark(insert_walk(t, w, Len(w)), w, sentence_id, position)

\* a plausible slip: the second early return is missing, so a blank word
\* ends its (empty) walk at the root and is recorded there
insert_blank_recorded(t, word, sentence_id, position) ==
  IF word = <<>> THEN t
  ELSE LET w == strip(lower(word))
       IN  insert_mark(insert_walk(t, w, Len(w)), w, sentence_id, position)

insert(t, word, sentence_id, position) ==
  IF word = <<>> THEN t
  ELSE LET w == strip(lower(word))
       IN  IF w = <<>> THEN t
           ELSE insert_mark(insert_walk(t, w, Len(w)), w, sentence_id, position)

\* The result of search: the node found (by its path), or None.
NotFound == [ found |-> FALSE, node |-> <<>> ]

\* The loop of search from the k-th character on, standing at node.
RECURSIVE search_walk(_, _, _, _)
search_walk(t, word, k, node) ==
  IF k > Len(word)
    THEN IF t.root[node].is_end_of_word
           THEN [ found |-> TRUE, node |-> node ]
           ELSE NotFound
    ELSE IF ~Contains(t.root[node].children, word[k])
           THEN NotFound
           ELSE search_walk(t, word, k + 1, Append(node, word[k]))

search(t, word) ==
  IF word = <<>> THEN NotFound
  ELSE search_walk(t, strip(lower(word)), 1, <<>>)

\* The result of get_sentences_of_word: the dict of the node, or None.
get_sentences_of_word(t, word) ==
  LET r == search(t, word)
  IN  IF r.found
        THEN [ found |-> TRUE, sentences_id |-> t.root[r.node].sentences_id ]
        ELSE [ found |-> FALSE, sentences_id |-> <<>> ]

\* a plausible slip: the root is replaced but the counters are kept
clear_root_only(t) == [ t EXCEPT !.root = NewTrie.root ]

clear(t) == NewTrie

(***************************************************************************)
(* calculate_score.py.  Scores are whole numbers (the code computes them   *)
(* as floats from integer terms); NegInf stands for float("-inf"), which   *)
(* every addition and subtraction leaves unchanged.                        *)
(***************************************************************************)
NegInf == -1000000

ScoreAdd(score, n) == IF score = NegInf THEN NegInf ELSE score + n

ADDITION == "addition"

DELETION == "deletion"

SUBSTITUTION == "substitution"

\* calculate_change_type returning None
NoChange == "None"

\* the explicit positions 0..3 of each penalty table, and its default
penalty_config ==
  [ substitution |-> [ explicit |-> << 5, 4, 3, 2 >>, default |-> 1 ],
    addition     |-> [ explicit |-> << 10, 8, 6, 4 >>, default |-> 2 ],
    deletion     |-> [ explicit |-> << 10, 8, 6, 4 >>, default |-> 2 ] ]

preprocess_sentence(sentence) ==
  IF sentence = <<>> THEN <<>>
  ELSE join(split(lower(translate(sentence))))

\* a plausible slip: the length of the word is not doubled
increment_score_single(current_score, word) ==
  ScoreAdd(current_score, Len(word))

increment_score(current_score, word) == ScoreAdd(current_score, Len(word) * 2)

calculate_penalty(position, penalty_type) ==
  IF penalty_type \notin DOMAIN penalty_config THEN 0
  ELSE LET penalties == penalty_config[penalty_type]
       IN  IF position + 1 \in DOMAIN penalties.explicit
             THEN penalties.explicit[position + 1]
             ELSE penalties.default

\* list.index(x, start): the 0-based index of the first x at or after start
index_from(seq, x, start) ==
  (CHOOSE i \in (start + 1)..Len(seq) :
     /\ seq[i] = x
     /\ \A j \in (start + 1)..(i - 1) : seq[j] # x) - 1

\* list.index(x)
index(seq, x) == index_from(seq, x, 0)

penalty_score(sentence, sentence_word, user_word, current_score, penalty_type) ==
  IF ~Contains(sentence, sentence_word) THEN current_score
  ELSE IF user_word = sentence_word THEN current_score
  ELSE LET position == index(sentence, sentence_word)
       IN  ScoreAdd(current_score, 0 - calculate_penalty(position, penalty_type))

Min3(a, b, c) ==
  IF a <= b /\ a <= c THEN a ELSE IF b <= c THEN b ELSE c

\* current_row after its first j + 1 entries, for character c1 of s1 at
\* 0-based index i
RECURSIVE lev_row(_, _, _, _, _)
lev_row(previous_row, i, c1, s2, j) ==
  IF j = 0 THEN << i + 1 >>
  ELSE LET current_row   == lev_row(previous_row, i, c1, s2, j - 1)
           insertions    == previous_row[j + 1] + 1
           deletions     == current_row[j] + 1
           substitutions == previous_row[j] + (IF c1 # s2[j] THEN 1 ELSE 0)
       IN  Append(current_row, Min3(insertions, deletions, substitutions))

\* previous_row after the first i characters of s1
RECURSIVE lev_rows(_, _, _)
lev_rows(s1, s2, i) ==
  IF i = 0 THEN [ j \in 1..(Len(s2) + 1) |-> j - 1 ]
  ELSE lev_row(lev_rows(s1, s2, i - 1), i - 1, s1[i], s2, Len(s2))

basic_levenshtein_long_first(s1, s2) ==
  IF Len(s2) = 0 THEN Len(s1)
  ELSE lev_rows(s1, s2, Len(s1))[Len(s2) + 1]

basic_levenshtein_distance(s1, s2) ==
  IF Len(s1) < Len(s2)
    THEN basic_levenshtein_long_first(s2, s1)
    ELSE basic_levenshtein_long_first(s1, s2)

\* a plausible slip: the two types of a change of length are exchanged
calculate_change_type_exchanged(user_word, sentence_word) ==
  LET distance == basic_levenshtein_distance(user_word, sentence_word)
  IN  IF distance = 1
        THEN IF Len(user_word) = Len(sentence_word) THEN SUBSTITUTION
             ELSE IF Len(user_word) < Len(sentence_word) THEN ADDITION
             ELSE DELETION
        ELSE NoChange

\* a plausible slip: a distance of 2 is accepted as one change
calculate_change_type_loose(user_word, sentence_word) ==
  LET distance == basic_levenshtein_distance(user_word, sentence_word)
  IN  IF distance = 1 \/ distance = 2
        THEN IF Len(user_word) = Len(sentence_word) THEN SUBSTITUTION
             ELSE IF Len(user_word) < Len(sentence_word) THEN DELETION
             ELSE ADDITION
        ELSE NoChange

calculate_change_type(user_word, sentence_word) ==
  LET distance == basic_levenshtein_distance(user_word, sentence_word)
  IN  IF distance = 1
        THEN IF Len(user_word) = Len(sentence_word) THEN SUBSTITUTION
             ELSE IF Len(user_word) < Len(sentence_word) THEN DELETION
             ELSE ADDITION
        ELSE NoChange

\* The locals of _calculate_single_sentence_score before its loop.  broke
\* records that the loop was left by break; matched is a history of the
\* loop: for each query word handled, the 0-based index of the sentence
\* word it was matched to and whether by an edit, or index -1 for no match.
ScoreStart ==
  [ position |-> 0, score |-> 0, one_change_found |-> FALSE, offset |-> 0,
    broke |-> FALSE, matched |-> <<>> ]

\* One iteration of the loop over user_words.
score_word(st, user_words, word, processed_sentence_words) ==
  LET words == processed_sentence_words
  IN
  IF Contains(SubSeq(words, st.position + 1, Len(words)), word)
    THEN LET position == index_from(words, word, st.position)
         IN  [ st EXCEPT
                 !.score = increment_score(@, word),
                 !.position = position,
                 !.offset = IF index(user_words, word) = 0
                              THEN position + 1 ELSE @,
                 !.matched = Append(@, [ index |-> position, edit |-> FALSE ]) ]
  ELSE IF ~st.one_change_found
    THEN LET hits == { i \in st.position..(Len(words) - 1) :
                         calculate_change_type(word, words[i + 1]) # NoChange }
         IN  IF hits # {}
               THEN LET i == CHOOSE h \in hits : \A g \in hits : h <= g
                        sentence_word == words[i + 1]
                        change_type == calculate_change_type(word, sentence_word)
                    IN  [ st EXCEPT
                            !.score = penalty_score(words, sentence_word, word,
                                                    @, change_type),
                            !.one_change_found = TRUE,
                            !.position = i,
                            !.matched = Append(@, [ index |-> i, edit |-> TRUE ]) ]
               ELSE [ st EXCEPT
                        !.score = NegInf,
                        !.matched = Append(@, [ index |-> -1, edit |-> FALSE ]) ]
  ELSE [ st EXCEPT
           !.score = NegInf,
           !.broke = TRUE,
           !.matched = Append(@, [ index |-> -1, edit |-> FALSE ]) ]

\* The loop over user_words from the k-th word on; the locals after an
\* iteration are bound once.
RECURSIVE score_loop(_, _, _, _)
score_loop(st, user_words, k, processed_sentence_words) ==
  IF k > Len(user_words) \/ st.broke THEN st
  ELSE CHOOSE end \in
         { score_loop(next, user_words, k + 1, processed_sentence_words) :
             next \in { score_word(st, user_words, user_words[k],
                                   processed_sentence_words) } } : TRUE

\* a plausible slip: the length bonus is 2 * n, not 2 * n - 1
score_walk_even_bonus(user_words, sentence) ==
  LET processed_sentence_words == split(preprocess_sentence(sentence))
      st == score_loop(ScoreStart, user_words, 1, processed_sentence_words)
  IN  [ st EXCEPT
          !.score = ScoreAdd(@, 2 * Len(processed_sentence_words)) ]

\* The locals after the loop and the length bonus.
score_walk(user_words, sentence) ==
  LET processed_sentence_words == split(preprocess_sentence(sentence))
      st == score_loop(ScoreStart, user_words, 1, processed_sentence_words)
  IN  [ st EXCEPT
          !.score = ScoreAdd(@, 2 * Len(processed_sentence_words) - 1) ]

NoData == [ is_none |-> TRUE ]

\* Returns an AutoCompleteData, or None (NoData).
calculate_single_sentence_score(user_words, sentence, user_sentence) ==
  LET st == score_walk(user_words, sentence)
  IN  IF st.score = NegInf THEN NoData
      ELSE [ is_none |-> FALSE,
             completed_sentence |-> user_sentence,
             source_text |-> sentence,
             offset |-> st.offset,
             score |-> st.score ]

\* The variations get_word_variations appends in the iteration i of its
\* loop: the character at i replaced by every other letter, the word without
\* the character at i if it has more than one, every letter put before i.
word_variations_at(word, i) ==
  { SubSeq(word, 1, i) \o << Lowercase[c] >> \o SubSeq(word, i + 2, Len(word)) :
      c \in { d \in DOMAIN Lowercase : Lowercase[d] # word[i + 1] } }
  \cup (IF Len(word) > 1
          THEN { SubSeq(word, 1, i) \o SubSeq(word, i + 2, Len(word)) }
          ELSE {})
  \cup { SubSeq(word, 1, i) \o << Lowercase[c] >> \o SubSeq(word, i + 1, Len(word)) :
           c \in DOMAIN Lowercase }

\* a plausible slip: the deletion is made for a word of one character too
get_word_variations_deleting(word) ==
  IF word = <<>> THEN {}
  ELSE { word }
         \cup UNION { word_variations_at(word, i) : i \in 0..(Len(word) - 1) }
         \cup { SubSeq(word, 1, i) \o SubSeq(word, i + 2, Len(word)) :
                  i \in 0..(Len(word) - 1) }
         \cup { Append(word, Lowercase[c]) : c \in DOMAIN Lowercase }

\* list(set(variations)): the list returned holds every element once, in no
\* particular order; it is modelled as the set of its elements.  The list
\* starts with the word itself.
get_word_variations(word) ==
  IF word = <<>> THEN {}
  ELSE { word }
         \cup UNION { word_variations_at(word, i) : i \in 0..(Len(word) - 1) }
         \cup { Append(word, Lowercase[c]) : c \in DOMAIN Lowercase }

\* a plausible slip: an element is put before the elements of equal score
sorted_insert_unstable(sorted, x) ==
  LET before == { i \in DOMAIN sorted : sorted[i].score > x.score }
      n == Cardinality(before)
  IN  SubSeq(sorted, 1, n) \o << x >> \o SubSeq(sorted, n + 1, Len(sorted))

\* list.sort(key = score, reverse = True) is stable: an element goes after
\* the elements already placed whose score is greater or equal.
sorted_insert(sorted, x) ==
  LET before == { i \in DOMAIN sorted : sorted[i].score >= x.score }
      n == Cardinality(before)
  IN  SubSeq(sorted, 1, n) \o << x >> \o SubSeq(sorted, n + 1, Len(sorted))

RECURSIVE sort_by_score(_)
sort_by_score(results) ==
  IF results = <<>> THEN <<>>
  ELSE CHOOSE all \in
         { sorted_insert(sorted, results[Len(results)]) :
             sorted \in { sort_by_score(SubSeq(results, 1,
                                               Len(results) - 1)) } } : TRUE

\* The loop of calculate_scores over the rows of sentences_df: the
\* AutoCompleteData of the rows that are scored, in row order.
RECURSIVE score_rows(_, _, _)
score_rows(user_words, user_sentence, rows) ==
  IF rows = <<>> THEN <<>>
  ELSE LET score_data == calculate_single_sentence_score(
                           user_words, rows[1].sentence, user_sentence)
       IN  (IF score_data.is_none THEN <<>> ELSE << score_data >>)
             \o score_rows(user_words, user_sentence, Tail(rows))

\* a plausible slip: the check for a query without words is missing
calculate_scores_unguarded(user_sentence, df) ==
  IF df = <<>> THEN <<>>
  ELSE LET processed == preprocess_sentence(user_sentence)
           autocomplete_results ==
             sort_by_score(score_rows(split(processed), processed, df))
       IN  SubSeq(autocomplete_results, 1,
                  IF Len(autocomplete_results) < 5
                    THEN Len(autocomplete_results) ELSE 5)

\* A DataFrame is the sequence of its rows [index, sentence, file_path].
calculate_scores(user_sentence, df) ==
  IF df = <<>> THEN <<>>
  ELSE LET processed == preprocess_sentence(user_sentence)
           user_words == split(processed)
       IN  IF user_words = <<>> THEN <<>>
           ELSE CHOOSE top \in
                  { SubSeq(autocomplete_results, 1,
                           IF Len(autocomplete_results) < 5
                             THEN Len(autocomplete_results) ELSE 5) :
                      autocomplete_results \in
                        { sort_by_score(score_rows(user_words, processed,
                                                   df)) } } : TRUE

(***************************************************************************)
(* Trie.py, the queries over the whole tree.  A list of words is the       *)
(* sequence of the words in the order the code appends them.               *)
(***************************************************************************)
get_word_count(t) == t.total_words

get_node_count(t) == t.total_nodes

\* _count_word_lengths receives total_length by value: what it adds never
\* reaches the caller, whose total_length stays 0.  The quotient is the
\* float 0.0, written 0.
calculate_average_word_length(t) ==
  IF t.total_words = 0 THEN 0
  ELSE LET total_length == 0
       IN  total_length \div t.total_words

get_statistics(t) ==
  [ total_words |-> t.total_words,
    total_nodes |-> t.total_nodes,
    average_word_length |-> calculate_average_word_length(t) ]

\* The loop that navigates to the node of prefix, from its k-th character
\* on, standing at node.
RECURSIVE prefix_walk(_, _, _, _)
prefix_walk(t, prefix, k, node) ==
  IF k > Len(prefix) THEN [ found |-> TRUE, node |-> node ]
  ELSE IF ~Contains(t.root[node].children, prefix[k]) THEN NotFound
  ELSE prefix_walk(t, prefix, k + 1, Append(node, prefix[k]))

\* _collect_words_from_node: the words it appends for node, then for the
\* children of node from the k-th on, in the order of node.children.
RECURSIVE collect_words_from_node(_, _, _)
RECURSIVE collect_words_from_children(_, _, _, _)
collect_words_from_children(t, node, current_word, k) ==
  IF k > Len(t.root[node].children) THEN <<>>
  ELSE LET char == t.root[node].children[k]
       IN  collect_words_from_node(t, Append(node, char),
                                   Append(current_word, char))
             \o collect_words_from_children(t, node, current_word, k + 1)

collect_words_from_node(t, node, current_word) ==
  (IF t.root[node].is_end_of_word THEN << current_word >> ELSE <<>>)
    \o collect_words_from_children(t, node, current_word, 1)

\* a plausible slip: the node of the prefix is looked up with search, which
\* wants it to be the end of a word
prefix_search_by_search(t, prefix) ==
  IF prefix = <<>> THEN <<>>
  ELSE LET p == strip(lower(prefix))
           r == search(t, prefix)
       IN  IF ~r.found THEN <<>>
           ELSE collect_words_from_node(t, r.node, p)

prefix_search(t, prefix) ==
  IF prefix = <<>> THEN <<>>
  ELSE LET p == strip(lower(prefix))
           r == prefix_walk(t, p, 1, <<>>)
       IN  IF ~r.found THEN <<>>
           ELSE collect_words_from_node(t, r.node, p)

\* a plausible slip: a substitution costs as much as a deletion and an
\* insertion
RECURSIVE levenshtein_row_costly(_, _, _, _, _)
levenshtein_row_costly(previous_row, i, c1, s2, j) ==
  IF j = 0 THEN << i + 1 >>
  ELSE LET current_row   == levenshtein_row_costly(previous_row, i, c1, s2, j - 1)
           insertions    == previous_row[j + 1] + 1
           deletions     == current_row[j] + 1
           substitutions == previous_row[j] + (IF c1 # s2[j] THEN 2 ELSE 0)
       IN  Append(current_row, Min3(insertions, deletions, substitutions))

\* current_row of _levenshtein_distance after the first j characters of s2
RECURSIVE levenshtein_row(_, _, _, _, _)
levenshtein_row(previous_row, i, c1, s2, j) ==
  IF j = 0 THEN << i + 1 >>
  ELSE LET current_row   == levenshtein_row(previous_row, i, c1, s2, j - 1)
           insertions    == previous_row[j + 1] + 1
           deletions     == current_row[j] + 1
           substitutions == previous_row[j] + (IF c1 # s2[j] THEN 1 ELSE 0)
       IN  Append(current_row, Min3(insertions, deletions, substitutions))

\* previous_row of _levenshtein_distance after the first i characters of s1
RECURSIVE levenshtein_rows(_, _, _)
levenshtein_rows(s1, s2, i) ==
  IF i = 0 THEN [ j \in 1..(Len(s2) + 1) |-> j - 1 ]
  ELSE levenshtein_row(levenshtein_rows(s1, s2, i - 1), i - 1, s1[i], s2,
                       Len(s2))

levenshtein_long_first(s1, s2) ==
  IF Len(s2) = 0 THEN Len(s1)
  ELSE levenshtein_rows(s1, s2, Len(s1))[Len(s2) + 1]

levenshtein_distance(s1, s2) ==
  IF Len(s1) < Len(s2)
    THEN levenshtein_long_first(s2, s1)
    ELSE levenshtein_long_first(s1, s2)

\* a plausible slip: the distance must be below remaining_distance
fuzzy_accepts_strict(current, target, remaining_distance) ==
  levenshtein_distance(current, target) < remaining_distance

\* the test of _fuzzy_search_recursive on a complete word
fuzzy_accepts(current, target, remaining_distance) ==
  levenshtein_distance(current, target) <= remaining_distance

\* _fuzzy_search_recursive: the words it appends for node, then for the
\* children of node from the k-th on.
RECURSIVE fuzzy_search_recursive(_, _, _, _, _)
RECURSIVE fuzzy_search_children(_, _, _, _, _, _)
fuzzy_search_children(t, node, target, current, remaining_distance, k) ==
  IF k > Len(t.root[node].children) THEN <<>>
  ELSE LET char == t.root[node].children[k]
       IN  fuzzy_search_recursive(t, Append(node, char), target,
                                  Append(current, char), remaining_distance)
             \o fuzzy_search_children(t, node, target, current,
                                      remaining_distance, k + 1)

fuzzy_search_recursive(t, node, target, current, remaining_distance) ==
  (IF t.root[node].is_end_of_word
        /\ fuzzy_accepts(current, target, remaining_distance)
     THEN << current >> ELSE <<>>)
    \o fuzzy_search_children(t, node, target, current, remaining_distance, 1)

\* the target is used as given: it is neither lower-cased nor trimmed
fuzzy_search(t, word, max_distance) ==
  fuzzy_search_recursive(t, <<>>, word, <<>>, max_distance)

(***************************************************************************)
(* main.py.  sentences_df is the sequence of the rows [index, sentence,    *)
(* file_path] of the DataFrame, index being the 0-based row label; a       *)
(* filtered frame keeps the labels of its rows.                            *)
(***************************************************************************)
ENGLISH_LETTERS_NUM == 26

MIN_WORD_LENGTH == 2

\* None as a value of match_sentences
NoneCount == -1

\* chr(ord("a") + char_num)
letter(char_num) == Lowercase[char_num + 1]

\* str.endswith
endswith(s, suffix) ==
  /\ Len(s) >= Len(suffix)
  /\ SubSeq(s, Len(s) - Len(suffix) + 1, Len(s)) = suffix

\* dict.get(key, default)
get(d, key, default) == IF key \in DOMAIN d THEN d[key] ELSE default

contains_words(line) == \E i \in DOMAIN line : isalpha(line[i])

\* The loop of initialize_words_trie from the k-th word on (position k - 1).
RECURSIVE initialize_words_from(_, _, _, _)
initialize_words_from(t, words, sentence_id, k) ==
  IF k > Len(words) THEN t
  ELSE initialize_words_from(insert(t, words[k], sentence_id, k - 1),
                             words, sentence_id, k + 1)

initialize_words_trie(t, line, sentence_id) ==
  initialize_words_from(t, split(line), sentence_id, 1)

\* The loop of load_data_files over the lines of one file.  ld holds the
\* locals sentences and sentence_id and the Trie.
RECURSIVE load_lines(_, _, _)
load_lines(ld, lines, file) ==
  IF lines = <<>> THEN ld
  ELSE LET line == strip(lines[1])
           next ==
             IF contains_words(line) /\ Len(line) > 0
               THEN [ sentences |->
                        Append(ld.sentences,
                               [ index |-> Len(ld.sentences),
                                 sentence |-> line, file_path |-> file ]),
                      trie |-> initialize_words_trie(ld.trie, line,
                                                     ld.sentence_id),
                      sentence_id |-> ld.sentence_id + 1 ]
               ELSE ld
       IN  load_lines(next, Tail(lines), file)

\* The loop over the files of the directory, in walk order.  A file is
\* [file, content, readable]: its bare name, its text, and whether opening
\* and reading it succeeds; a file that raises is skipped.
RECURSIVE load_files(_, _)
load_files(ld, files) ==
  IF files = <<>> THEN ld
  ELSE LET f == files[1]
           next ==
             IF endswith(f.file, << ".", "t", "x", "t" >>) /\ f.readable
               THEN load_lines(ld, split_on(f.content, "\n"), f.file)
               ELSE ld
       IN  load_files(next, Tail(files))

\* The Trie and the rows after load_data_files on an existing directory.
load_data_files(t, files) ==
  load_files([ sentences |-> <<>>, trie |-> t, sentence_id |-> 1 ], files)

\* The variations of one word that filter_sentences_for_short_input looks
\* up: for every index i and letter, the letter added before i, the letter
\* in place of the character at i, and the word without the character at i;
\* then every letter added at the end.
short_input_variations_inner(word) ==
  UNION { { SubSeq(word, 1, i) \o << letter(char_num) >>
              \o SubSeq(word, i + 1, Len(word)),
            SubSeq(word, 1, i) \o << letter(char_num) >>
              \o SubSeq(word, i + 2, Len(word)),
            SubSeq(word, 1, i) \o SubSeq(word, i + 2, Len(word)) } :
          i \in 0..(Len(word) - 1),
          char_num \in 0..(ENGLISH_LETTERS_NUM - 1) }

\* a plausible slip: the loop that adds a letter at the end is missing
short_input_variations_no_end(word) == short_input_variations_inner(word)

short_input_variations(word) ==
  short_input_variations_inner(word)
    \cup { word \o << letter(char_num) >> :
             char_num \in 0..(ENGLISH_LETTERS_NUM - 1) }

\* get_sentences_of_word(word) or {}, its keys
sentence_keys(t, word) == DOMAIN get_sentences_of_word(t, word).sentences_id

\* word_sentence_ids of one word
word_sentence_ids(t, word) ==
  sentence_keys(t, word)
    \cup UNION { sentence_keys(t, variation) :
                   variation \in short_input_variations(word) }

\* The loop over the words from the k-th on.
RECURSIVE short_input_loop(_, _, _, _)
short_input_loop(t, words, k, all_sentence_ids) ==
  IF k > Len(words) THEN all_sentence_ids
  ELSE LET ids == word_sentence_ids(t, words[k])
       IN  short_input_loop(t, words, k + 1,
                            IF all_sentence_ids = {} THEN ids
                            ELSE all_sentence_ids \cap ids)

\* The list returned is modelled as the set of its elements.
filter_sentences_for_short_input(t, input_string) ==
  LET words == split(preprocess_sentence(input_string))
  IN  { id - 1 : id \in short_input_loop(t, words, 1, {}) }

\* a plausible slip: the threshold for the words from the third on is
\* word_index instead of word_index - 1
long_count_strict(match_sentences, sentence_id, word_index) ==
  IF word_index = 0 THEN 1
  ELSE IF word_index = 1 THEN get(match_sentences, sentence_id, 0) + 1
  ELSE IF get(match_sentences, sentence_id, 0) = NoneCount THEN NoneCount
  ELSE IF get(match_sentences, sentence_id, 0) >= word_index
    THEN match_sentences[sentence_id] + 1
  ELSE NoneCount

\* The new value of match_sentences[sentence_id] for the query word at
\* word_index, which occurs in the sentence.
long_count(match_sentences, sentence_id, word_index) ==
  IF word_index = 0 THEN 1
  ELSE IF word_index = 1 THEN get(match_sentences, sentence_id, 0) + 1
  ELSE IF get(match_sentences, sentence_id, 0) = NoneCount THEN NoneCount
  ELSE IF get(match_sentences, sentence_id, 0) >= word_index - 1
    THEN match_sentences[sentence_id] + 1
  ELSE NoneCount

\* The loop of the long search over the words from the k-th on (word_index
\* k - 1).
RECURSIVE long_input_loop(_, _, _, _)
long_input_loop(t, words, k, match_sentences) ==
  IF k > Len(words) THEN match_sentences
  ELSE LET appears == get_sentences_of_word(t, words[k]).sentences_id
           next ==
             [ id \in DOMAIN match_sentences \cup DOMAIN appears |->
                 IF id \in DOMAIN appears
                   THEN long_count(match_sentences, id, k - 1)
                   ELSE match_sentences[id] ]
       IN  long_input_loop(t, words, k + 1, next)

\* a plausible slip: the count must reach the number of the query words
filter_sentences_for_long_input_every(t, words) ==
  LET match_sentences == long_input_loop(t, words, 1, <<>>)
  IN  { key - 1 : key \in { k \in DOMAIN match_sentences :
                              /\ match_sentences[k] # NoneCount
                              /\ match_sentences[k] >= Len(words) } }

\* matching_sentence_ids of the long search, as a set
filter_sentences_for_long_input(t, words) ==
  LET match_sentences == long_input_loop(t, words, 1, <<>>)
  IN  { key - 1 : key \in { k \in DOMAIN match_sentences :
                              /\ match_sentences[k] # NoneCount
                              /\ match_sentences[k] >= Len(words) - 1 } }

\* sentences_df[sentences_df.index.isin(matching_sentence_ids)]
rows_in(df, matching_sentence_ids) ==
  SelectSeq(df, LAMBDA row : row.index \in matching_sentence_ids)

\* The outcome of search_matches: raised (RuntimeError) or the frame df.
search_matches(t, df, initialized, user_input) ==
  IF ~initialized THEN [ raised |-> TRUE, df |-> <<>> ]
  ELSE LET input == strip(lower(user_input))
           words == split(input)
           matching_sentence_ids ==
             IF Len(words) >= MIN_WORD_LENGTH
               THEN filter_sentences_for_long_input(t, words)
               ELSE filter_sentences_for_short_input(t, input)
       IN  IF input = <<>> THEN [ raised |-> FALSE, df |-> <<>> ]
           ELSE [ raised |-> FALSE, df |-> rows_in(df, matching_sentence_ids) ]

\* The SearchResult objects built from top_results; raised when some
\* filtered_df.iloc[offset - 1] is out of range (IndexError), which leaves
\* the loop with nothing returned.
search_results(top_results, filtered_df) ==
  IF \E k \in DOMAIN top_results :
       top_results[k].offset > 0 /\ top_results[k].offset > Len(filtered_df)
    THEN [ raised |-> TRUE, list |-> <<>> ]
  ELSE [ raised |-> FALSE,
         list |->
           [ k \in DOMAIN top_results |->
               [ sentence |-> top_results[k].source_text,
                 file_path |->
                   IF top_results[k].offset > 0
                     THEN filtered_df[top_results[k].offset].file_path
                     ELSE << "N", "/", "A" >>,
                 score |-> top_results[k].score,
                 rank |-> k ] ] ]

\* What get_autocomplete_suggestions does with a non-empty filtered_df and
\* the top_results of the scorer.
suggestions_of(top_results, filtered_df) ==
  LET built == search_results(top_results, filtered_df)
  IN  IF built.raised THEN [ ret |-> <<>>, error_logged |-> TRUE ]
      ELSE [ ret |-> built.list, error_logged |-> FALSE ]

\* The outcome of get_autocomplete_suggestions: the list returned, and
\* whether it went through the except clause (the error is logged and the
\* empty list returned; nothing is raised to the caller).  filtered_df
\* and top_results are bound once, as the locals they are.
get_autocomplete_suggestions(t, df, initialized, user_input) ==
  CHOOSE outcome \in
    { IF filtered.raised THEN [ ret |-> <<>>, error_logged |-> TRUE ]
      ELSE IF filtered.df = <<>> THEN [ ret |-> <<>>, error_logged |-> FALSE ]
      ELSE CHOOSE o \in
             { suggestions_of(top_results, filtered.df) :
                 top_results \in { calculate_scores(user_input, filtered.df) } } :
             TRUE :
      filtered \in { search_matches(t, df, initialized, user_input) } } : TRUE

(***************************************************************************)
(* Bounds and input pools of the model.                                    *)
(***************************************************************************)
\* the longest sequence of insert calls between two clears
MaxInserts == 2

\* the words handed to insert: "cat", "Car " (normalizes to "car"), "ca"
\* (a prefix of both), a blank word and the empty word
RawWords ==
  { << "c", "a", "t" >>, << "C", "a", "r", " " >>, << "c", "a" >>,
    << " " >>, <<>> }

\* the words handed to the Trie queries
QueryWords ==
  { << "c", "a", "t" >>, << " ", "C", "A", "R" >>, << "c", "a" >>,
    << "c" >>, << " " >> }

SentenceIds == { 1, 2 }

Positions == { 0, 1 }

NoInput == [ kind |-> "none" ]

NoOutput == [ op |-> "none" ]

(***************************************************************************)
(* The Trie on its own: any sequence of insert, clear and query calls.     *)
(* calls is the log of the insert calls since the last clear.              *)
(***************************************************************************)
TrieInit ==
  /\ words_trie = NewTrie
  /\ sentences_df = <<>>
  /\ is_initialized = FALSE
  /\ calls = <<>>
  /\ inp = NoInput
  /\ out = NoOutput

TrieInsert ==
  \E word \in RawWords, sentence_id \in SentenceIds, position \in Positions :
    /\ Len(calls) < MaxInserts
    /\ words_trie' = insert(words_trie, word, sentence_id, position)
    /\ calls' = Append(calls, [ word |-> word, sentence_id |-> sentence_id,
                                position |-> position ])
    /\ out' = [ op |-> "insert" ]
    /\ UNCHANGED << sentences_df, is_initialized, inp >>

TrieClear ==
  /\ words_trie' = clear(words_trie)
  /\ calls' = <<>>
  /\ out' = [ op |-> "clear", nodes_before |-> words_trie.total_nodes ]
  /\ UNCHANGED << sentences_df, is_initialized, inp >>

TrieSearch ==
  \E word \in QueryWords :
    /\ out' = [ op |-> "search", word |-> word,
                ret |-> search(words_trie, word) ]
    /\ UNCHANGED << words_trie, sentences_df, is_initialized, calls, inp >>

TrieGetSentencesOfWord ==
  \E word \in QueryWords :
    /\ out' = [ op |-> "get_sentences_of_word", word |-> word,
                ret |-> get_sentences_of_word(words_trie, word) ]
    /\ UNCHANGED << words_trie, sentences_df, is_initialized, calls, inp >>

TrieNext ==
  \/ TrieInsert
  \/ TrieClear
  \/ TrieSearch
  \/ TrieGetSentencesOfWord

TrieSpec == TrieInit /\ [][TrieNext]_vars

\* the calls of the log whose normalized word is not empty
Effective(call) == strip(lower(call.word)) # <<>>

\* C1: round trip.  After any sequence of insert calls since the last clear,
\* for every logged call insert(w, s, p) with a non-empty normalized word,
\* search(w) succeeds and get_sentences_of_word(w) maps s to a list of
\* positions that contains p.
C1_RoundTrip ==
  \A i \in DOMAIN calls :
    Effective(calls[i]) =>
      LET r == get_sentences_of_word(words_trie, calls[i].word)
      IN  /\ search(words_trie, calls[i].word).found
          /\ r.found
          /\ calls[i].sentence_id \in DOMAIN r.sentences_id
          /\ Contains(r.sentences_id[calls[i].sentence_id], calls[i].position)

\* C1 witness: "Car " (padded, capitalized) was inserted twice for the same
\* sentence at two positions, and get_sentences_of_word(" CAR") has returned
\* both positions.
C1_Witness ==
  /\ Len(calls) = 2
  /\ calls[1].word = << "C", "a", "r", " " >>
  /\ calls[2].word = << "C", "a", "r", " " >>
  /\ calls[1].sentence_id = calls[2].sentence_id
  /\ calls[1].position # calls[2].position
  /\ out.op = "get_sentences_of_word"
  /\ out.word = << " ", "C", "A", "R" >>
  /\ out.ret.found
  /\ out.ret.sentences_id[calls[1].sentence_id] =
       << calls[1].position, calls[2].position >>

(***************************************************************************)
(* The Trie as a dictionary: words are inserted one after the other, and   *)
(* the queries over the whole tree are made at any time.                   *)
(***************************************************************************)
\* the longest sequence of words inserted between two clears
MaxWords == 4

\* the words inserted: "cat", "car", "cup", "dog", and "ca", a prefix of two
\* of them
DictionaryWords ==
  { << "c", "a", "t" >>, << "c", "a", "r" >>, << "c", "u", "p" >>,
    << "d", "o", "g" >>, << "c", "a" >> }

\* the prefixes: "ca", " C", "cat", "x", " " and the empty one
PrefixQueries ==
  { << "c", "a" >>, << " ", "C" >>, << "c", "a", "t" >>, << "x" >>,
    << " " >>, <<>> }

\* the targets of fuzzy_search: "cat", "Ca", "dot"
FuzzyQueries ==
  { << "c", "a", "t" >>, << "C", "a" >>, << "d", "o", "t" >> }

\* the values of max_distance
Distances == { 0, 1, 2 }

WordsInsert ==
  \E word \in DictionaryWords :
    /\ Len(calls) < MaxWords
    /\ words_trie' = insert(words_trie, word, 1, Len(calls))
    /\ calls' = Append(calls, [ word |-> word, sentence_id |-> 1,
                                position |-> Len(calls) ])
    /\ out' = [ op |-> "insert" ]
    /\ UNCHANGED << sentences_df, is_initialized, inp >>

TriePrefixSearch ==
  \E prefix \in PrefixQueries :
    /\ out' = [ op |-> "prefix_search", prefix |-> prefix,
                ret |-> prefix_search(words_trie, prefix) ]
    /\ UNCHANGED << words_trie, sentences_df, is_initialized, calls, inp >>

TrieFuzzySearch ==
  \E word \in FuzzyQueries, max_distance \in Distances :
    /\ out' = [ op |-> "fuzzy_search", word |-> word,
                max_distance |-> max_distance,
                ret |-> fuzzy_search(words_trie, word, max_distance) ]
    /\ UNCHANGED << words_trie, sentences_df, is_initialized, calls, inp >>

TrieGetStatistics ==
  /\ out' = [ op |-> "get_statistics", ret |-> get_statistics(words_trie) ]
  /\ UNCHANGED << words_trie, sentences_df, is_initialized, calls, inp >>

WordsNext ==
  \/ WordsInsert
  \/ TrieClear
  \/ TriePrefixSearch
  \/ TrieFuzzySearch
  \/ TrieGetStatistics

WordsSpec == TrieInit /\ [][WordsNext]_vars

\* the distinct normalized words inserted since the last clear
InsertedWords ==
  { strip(lower(calls[i].word)) : i \in { j \in DOMAIN calls : Effective(calls[j]) } }

\* p is a prefix of w
StartsWith(w, p) == Len(p) <= Len(w) /\ SubSeq(w, 1, Len(p)) = p

(***************************************************************************)
(* The scorer of one candidate: _calculate_single_sentence_score applied   *)
(* to one query and one candidate sentence, as calculate_scores calls it.  *)
(***************************************************************************)
\* the most words of a generated query
MaxQueryWords == 3

\* the most words of a generated candidate sentence
MaxSentenceWords == 3

\* the words of the generated queries: pairs at edit distance 0, 1 (of
\* each kind) and 2
ScoreQueryWords ==
  { << "a" >>, << "a", "b" >>, << "b", "b" >>, << "a", "b", "c" >> }

\* the words of the generated sentences: the same after preprocessing
ScoreSentenceWords ==
  { << "a" >>, << "A", "b", "." >>, << "b", "b" >>, << "a", "b", "c" >> }

SeqsOf(S, lo, hi) == UNION { [ 1..k -> S ] : k \in lo..hi }

\* "teh autocomplete"
ExampleQuery ==
  << "t", "e", "h", " ", "a", "u", "t", "o", "c", "o", "m", "p", "l", "e",
     "t", "e" >>

\* "tha autocomplete"
ExampleQueryOneEdit ==
  << "t", "h", "a", " ", "a", "u", "t", "o", "c", "o", "m", "p", "l", "e",
     "t", "e" >>

\* "the autocomplete system will use this data."
ExampleSentence ==
  << "t", "h", "e", " ", "a", "u", "t", "o", "c", "o", "m", "p", "l", "e",
     "t", "e", " ", "s", "y", "s", "t", "e", "m", " ", "w", "i", "l", "l",
     " ", "u", "s", "e", " ", "t", "h", "i", "s", " ", "d", "a", "t", "a",
     "." >>

SingleInputs ==
  { [ kind |-> "single", user_sentence |-> join(q), sentence |-> join(w) ] :
      q \in SeqsOf(ScoreQueryWords, 1, MaxQueryWords),
      w \in SeqsOf(ScoreSentenceWords, 1, MaxSentenceWords) }
  \cup
  { [ kind |-> "single", user_sentence |-> q, sentence |-> ExampleSentence ] :
      q \in { ExampleQuery, ExampleQueryOneEdit } }

SingleInit ==
  /\ words_trie = NewTrie
  /\ sentences_df = <<>>
  /\ is_initialized = FALSE
  /\ calls = <<>>
  /\ inp \in SingleInputs
  /\ out = NoOutput

\* calculate_scores preprocesses the query and scores the candidate; walk
\* holds the locals of the scorer at its end.
SingleScore ==
  /\ out.op = "none"
  /\ LET processed == preprocess_sentence(inp.user_sentence)
         user_words == split(processed)
     IN  out' = [ op |-> "single",
                  user_words |-> user_words,
                  sentence_words |-> split(preprocess_sentence(inp.sentence)),
                  walk |-> score_walk(user_words, inp.sentence),
                  ret |-> calculate_single_sentence_score(
                            user_words, inp.sentence, processed) ]
  /\ UNCHANGED << words_trie, sentences_df, is_initialized, calls, inp >>

SingleNext == SingleScore

SingleSpec == SingleInit /\ [][SingleNext]_vars

\* The edit distance of the glossary: the least number of single-character
\* insertions, deletions and substitutions that turn a into b.
RECURSIVE EditDistance(_, _)
EditDistance(a, b) ==
  IF a = <<>> THEN Len(b)
  ELSE IF b = <<>> THEN Len(a)
  ELSE IF Head(a) = Head(b) THEN EditDistance(Tail(a), Tail(b))
  ELSE 1 + Min3(EditDistance(Tail(a), b), EditDistance(a, Tail(b)),
                EditDistance(Tail(a), Tail(b)))

\* the query words of the last scoring that occur nowhere in the sentence
Unmatched ==
  { k \in DOMAIN out.user_words :
      ~Contains(out.sentence_words, out.user_words[k]) }

\* the query words of the last scoring with no sentence word within edit
\* distance 1
Hopeless ==
  { k \in DOMAIN out.user_words :
      \A j \in DOMAIN out.sentence_words :
        EditDistance(out.user_words[k], out.sentence_words[j]) > 1 }

\* C3: one-edit budget.  A returned suggestion has every query word matched,
\* left to right, to a sentence word at or after the previous match, exactly
\* or, for at most one query word, at edit distance exactly 1; a candidate
\* with two query words that occur nowhere in it, or with a query word that
\* has no sentence word within distance 1, is not returned.
C3_OneEditBudget ==
  out.op = "single" =>
    LET m == out.walk.matched
        q == out.user_words
        w == out.sentence_words
    IN  /\ ~out.ret.is_none =>
             /\ Len(m) = Len(q)
             /\ \A k \in DOMAIN m :
                  /\ m[k].index \in 0..(Len(w) - 1)
                  /\ k > 1 => m[k - 1].index <= m[k].index
                  /\ IF m[k].edit
                       THEN EditDistance(q[k], w[m[k].index + 1]) = 1
                       ELSE q[k] = w[m[k].index + 1]
             /\ Cardinality({ k \in DOMAIN m : m[k].edit }) <= 1
        /\ Cardinality(Unmatched) >= 2 => out.ret.is_none
        /\ Hopeless # {} => out.ret.is_none

\* C3 witness: a three-word query was returned with its second word matched
\* by an edit and the other two exactly.
C3_Witness ==
  /\ out.op = "single"
  /\ ~out.ret.is_none
  /\ Len(out.user_words) = 3
  /\ ~out.walk.matched[1].edit
  /\ out.walk.matched[2].edit
  /\ ~out.walk.matched[3].edit

\* C3 witness of the refusal: both words of the query are one edit away from
\* a sentence word, none occurs in the sentence, and nothing was returned.
C3_WitnessRefused ==
  /\ out.op = "single"
  /\ Len(out.user_words) = 2
  /\ Cardinality(Unmatched) = 2
  /\ Hopeless = {}
  /\ out.ret.is_none

\* C4 as stated: "teh autocomplete" against the example sentence is a
\* substitution match at index 0 followed by an exact match, score 20.
C4_AsStated ==
  (out.op = "single" /\ inp.user_sentence = ExampleQuery
     /\ inp.sentence = ExampleSentence) =>
    /\ ~out.ret.is_none
    /\ out.ret.score = 20
    /\ out.walk.matched =
         << [ index |-> 0, edit |-> TRUE ], [ index |-> 1, edit |-> FALSE ] >>

\* C4 amended: "teh" is at edit distance 2 from "the" (a transposition is
\* two edits) and no word of the example sentence is within distance 1 of
\* it, so "teh autocomplete" is disqualified and yields no suggestion; with
\* the one-substitution query "tha autocomplete" the first word is matched
\* by an edit at index 0 (penalty 5), "autocomplete" exactly (2 * 12 = 24)
\* and the length bonus is 2 * 7 - 1, a score of 32.
C4_Example ==
  (out.op = "single" /\ inp.sentence = ExampleSentence) =>
    /\ Len(out.sentence_words) = 7
    /\ inp.user_sentence = ExampleQuery =>
         /\ out.ret.is_none
         /\ calculate_change_type(out.user_words[1], out.sentence_words[1])
              = NoChange
         /\ basic_levenshtein_distance(out.user_words[1],
                                       out.sentence_words[1]) = 2
         /\ out.walk.matched[1].index = -1
    /\ inp.user_sentence = ExampleQueryOneEdit =>
         /\ ~out.ret.is_none
         /\ calculate_change_type(out.user_words[1], out.sentence_words[1])
              = SUBSTITUTION
         /\ out.walk.matched =
              << [ index |-> 0, edit |-> TRUE ],
                 [ index |-> 1, edit |-> FALSE ] >>
         /\ out.ret.score = (0 - 5) + 24 + (2 * 7 - 1)
         /\ out.ret.score = 32

\* C4 witness: "teh autocomplete" has been scored against the example
\* sentence and nothing was returned.
C4_Witness ==
  /\ out.op = "single"
  /\ inp.sentence = ExampleSentence
  /\ inp.user_sentence = ExampleQuery
  /\ out.ret.is_none

(***************************************************************************)
(* The functions of words: the variant generator, the classification of    *)
(* an edit and the two edit distances, applied to the words of a pair.     *)
(***************************************************************************)
\* the longest word of a generated pair
MaxPairLen == 3

\* the letters of the generated words
PairLetters == { "a", "b" }

PairInputs ==
  { [ kind |-> "pair", s1 |-> s1, s2 |-> s2 ] :
      s1 \in SeqsOf(PairLetters, 0, MaxPairLen),
      s2 \in SeqsOf(PairLetters, 0, MaxPairLen) }

PairInit ==
  /\ words_trie = NewTrie
  /\ sentences_df = <<>>
  /\ is_initialized = FALSE
  /\ calls = <<>>
  /\ inp \in PairInputs
  /\ out = NoOutput

GetWordVariations ==
  /\ out' = [ op |-> "get_word_variations", word |-> inp.s1,
              ret |-> get_word_variations(inp.s1) ]
  /\ UNCHANGED << words_trie, sentences_df, is_initialized, calls, inp >>

CalculateChangeType ==
  /\ out' = [ op |-> "calculate_change_type", user_word |-> inp.s1,
              sentence_word |-> inp.s2,
              ret |-> calculate_change_type(inp.s1, inp.s2) ]
  /\ UNCHANGED << words_trie, sentences_df, is_initialized, calls, inp >>

BasicLevenshteinDistance ==
  /\ out' = [ op |-> "_basic_levenshtein_distance", s1 |-> inp.s1,
              s2 |-> inp.s2,
              ret |-> basic_levenshtein_distance(inp.s1, inp.s2) ]
  /\ UNCHANGED << words_trie, sentences_df, is_initialized, calls, inp >>

LevenshteinDistance ==
  /\ out' = [ op |-> "_levenshtein_distance", s1 |-> inp.s1, s2 |-> inp.s2,
              ret |-> levenshtein_distance(inp.s1, inp.s2) ]
  /\ UNCHANGED << words_trie, sentences_df, is_initialized, calls, inp >>

PairNext ==
  \/ GetWordVariations
  \/ CalculateChangeType
  \/ BasicLevenshteinDistance
  \/ LevenshteinDistance

PairSpec == PairInit /\ [][PairNext]_vars

(***************************************************************************)
(* calculate_scores applied to one query and one frame of candidates.      *)
(***************************************************************************)
\* the most rows of a generated candidate frame
MaxRows == 6

\* "a b", "b a.", "C b b", "c c c": for the query "a" the first two tie and
\* so do the last two, with a lower score; for "a b" the scores of the first
\* three differ and the last is disqualified
ScoreRowTexts ==
  { << "a", " ", "b" >>, << "b", " ", "a", "." >>,
    << "C", " ", "b", " ", "b" >>, << "c", " ", "c", " ", "c" >> }

\* "a", "a b", and three queries that are empty after preprocessing:
\* "", " " and ". ."
ScoreQueries ==
  { << "a" >>, << "a", " ", "b" >>, <<>>, << " " >>, << ".", " ", "." >> }

\* the frame whose i-th row (index i - 1) holds the i-th text
FrameOf(texts) ==
  [ i \in 1..Len(texts) |->
      [ index |-> i - 1, sentence |-> texts[i], file_path |-> << "f" >> ] ]

ScoreInit ==
  /\ words_trie = NewTrie
  /\ sentences_df = <<>>
  /\ is_initialized = FALSE
  /\ calls = <<>>
  /\ inp \in { [ kind |-> "scores", user_sentence |-> q, df |-> FrameOf(t) ] :
                 q \in ScoreQueries, t \in SeqsOf(ScoreRowTexts, 0, MaxRows) }
  /\ out = NoOutput

ScoreCalculate ==
  /\ out.op = "none"
  /\ out' = [ op |-> "calculate_scores",
              ret |-> calculate_scores(inp.user_sentence, inp.df) ]
  /\ UNCHANGED << words_trie, sentences_df, is_initialized, calls, inp >>

ScoreNext == ScoreCalculate

ScoreSpec == ScoreInit /\ [][ScoreNext]_vars

\* the suggestions of the candidates of the last calculate_scores that are
\* not disqualified, in scan order
Survivors ==
  LET processed == preprocess_sentence(inp.user_sentence)
      scored == [ i \in DOMAIN inp.df |->
                    calculate_single_sentence_score(
                      split(processed), inp.df[i].sentence, processed) ]
  IN  SelectSeq(scored, LAMBDA d : ~d.is_none)

\* the place of the m-th of the survivors surv in the ranking: one more
\* than the number of survivors with a higher score, or with the same score
\* and scanned before it
Rank(surv, m) ==
  1 + Cardinality({ n \in DOMAIN surv :
                      \/ surv[n].score > surv[m].score
                      \/ /\ surv[n].score = surv[m].score
                         /\ n < m })

\* C2: top-K.  calculate_scores returns min(N, 5) suggestions, N the number
\* of survivors: the survivors of rank 1..5, each at its rank (descending
\* score, ties in scan order); so the scores returned never increase and no
\* survivor left out has a higher score than one returned.
C2_TopK ==
  (out.op = "calculate_scores"
     /\ split(preprocess_sentence(inp.user_sentence)) # <<>>) =>
    LET surv == Survivors
        N == Len(surv)
        rank == [ m \in 1..N |-> Rank(surv, m) ]
    IN  /\ Len(out.ret) = IF N < 5 THEN N ELSE 5
        /\ \A m \in 1..N : rank[m] <= 5 => out.ret[rank[m]] = surv[m]
        /\ \A i \in 1..(Len(out.ret) - 1) :
             out.ret[i].score >= out.ret[i + 1].score
        /\ \A m \in 1..N, i \in DOMAIN out.ret :
             rank[m] > 5 => surv[m].score <= out.ret[i].score

\* C2 witness: six survivors of three different texts were scored; the
\* fifth returned ties with the one left out, which has another text, and
\* the first returned scores more than the fifth.
C2_Witness ==
  /\ out.op = "calculate_scores"
  /\ Len(out.ret) = 5
  /\ out.ret[1].score > out.ret[5].score
  /\ LET surv == Survivors
     IN  /\ Len(surv) = 6
         /\ \E m \in 1..6 :
              /\ Rank(surv, m) = 6
              /\ surv[m].score = out.ret[5].score
              /\ surv[m].source_text # out.ret[5].source_text

(***************************************************************************)
(* The system: AutoCompleteSystem is constructed; load_data_files (main    *)
(* runs it once at start-up), initialize_words_trie and the queries are    *)
(* called at any time and in any order.  inp holds the input of the last   *)
(* call that wrote to the Trie or the Corpus.                              *)
(***************************************************************************)
\* the most words the Trie counts after a load into a system that is no
\* longer fresh, or after a direct initialize_words_trie
MaxTotalWords == 10
\* the most files of the data directory
MaxFiles == 2

\* one.txt: "a b\n\n12 3\n b a.\n"
FileOne ==
  [ file |->
      << "o", "n", "e", ".", "t", "x", "t" >>,
    content |->
      << "a", " ", "b", "\n", "\n", "1", "2", " ", "3", "\n", " ", "b",
         " ", "a", ".", "\n" >>,
    readable |-> TRUE ]

\* two.txt: "c d\nA c d\n- x -\n"
FileTwo ==
  [ file |->
      << "t", "w", "o", ".", "t", "x", "t" >>,
    content |->
      << "c", " ", "d", "\n", "A", " ", "c", " ", "d", "\n", "-", " ", "x",
         " ", "-", "\n" >>,
    readable |-> TRUE ]

\* three.txt: "x a\nTest b c d"
FileThree ==
  [ file |->
      << "t", "h", "r", "e", "e", ".", "t", "x", "t" >>,
    content |->
      << "x", " ", "a", "\n", "T", "e", "s", "t", " ", "b", " ", "c", " ",
         "d" >>,
    readable |-> TRUE ]

\* notes.md: "a b c"
FileNotes ==
  [ file |->
      << "n", "o", "t", "e", "s", ".", "m", "d" >>,
    content |->
      << "a", " ", "b", " ", "c" >>,
    readable |-> TRUE ]

\* bad.txt: "a b" (opening it raises)
FileBad ==
  [ file |->
      << "b", "a", "d", ".", "t", "x", "t" >>,
    content |->
      << "a", " ", "b" >>,
    readable |-> FALSE ]

Files == { FileOne, FileTwo, FileThree, FileNotes, FileBad }

\* the queries: "tes", "A.", "d", "", " ", ".",
\* "- -", "a b", "a b c d", "x A"
Queries ==
  { << "t", "e", "s" >>,
    << "A", "." >>,
    << "d" >>,
    <<>>,
    << " " >>,
    << "." >>,
    << "-", " ", "-" >>,
    << "a", " ", "b" >>,
    << "a", " ", "b", " ", "c", " ", "d" >>,
    << "x", " ", "A" >> }

Init ==
  /\ words_trie = NewTrie
  /\ sentences_df = <<>>
  /\ is_initialized = FALSE
  /\ calls = <<>>
  /\ inp = NoInput
  /\ out = NoOutput

\* Executing the module: the class statement of AutoCompleteSystem applies
\* the decorator of line 173 while its body runs.  timeit is the plain
\* function timeit(self, func) of the body, so timeit(search_matches) lacks
\* the argument func: TypeError, the class is not bound and the import
\* fails.  The methods below are the functions the body defines, called on
\* the attributes of an instance; the step that executes the module raises
\* in every state and changes no attribute.
ImportMain ==
  /\ out' = [ op |-> "import main", raised |-> TRUE ]
  /\ UNCHANGED << words_trie, sentences_df, is_initialized, calls, inp >>

\* the system as the constructor leaves it
Fresh == ~is_initialized /\ words_trie = NewTrie

\* the directories loaded into a system that is no longer fresh: an empty
\* one, one that holds one.txt and one that holds three.txt
ReloadDirectories == { <<>>, << FileOne >>, << FileThree >> }

\* load_data_files on an existing data directory.  main runs it once, right
\* after the construction; nothing in the method keeps a caller from running
\* it again: the Trie is not cleared, the ids start at 1 again and the frame
\* is replaced.  A load into a system that is no longer fresh is bounded by
\* the counter of the Trie.
LoadDataFiles ==
  \E files \in IF Fresh THEN SeqsOf(Files, 0, MaxFiles)
                         ELSE ReloadDirectories :
    \E ld \in { load_data_files(words_trie, files) } :
      /\ ~Fresh => ld.trie.total_words <= MaxTotalWords
      /\ words_trie' = ld.trie
      /\ sentences_df' = ld.sentences
      /\ is_initialized' = TRUE
      /\ inp' = [ kind |-> "directory", files |-> files ]
      /\ out' = [ op |-> "load_data_files", raised |-> FALSE ]
      /\ UNCHANGED calls

\* load_data_files without a data directory: FileNotFoundError, in every
\* state
LoadMissingDirectory ==
  /\ out' = [ op |-> "load_data_files", raised |-> TRUE ]
  /\ UNCHANGED << words_trie, sentences_df, is_initialized, calls, inp >>

\* the lines handed to initialize_words_trie on its own: "new words"
IndexedLines ==
  { << "n", "e", "w", " ", "w", "o", "r", "d", "s" >> }

\* initialize_words_trie is a public method: a caller may index a line
\* under a sentence id at any time
InitializeWordsTrie ==
  \E line \in IndexedLines, sentence_id \in { 1 } :
    \E t \in { initialize_words_trie(words_trie, line, sentence_id) } :
      /\ t.total_words <= MaxTotalWords
      /\ words_trie' = t
      /\ inp' = [ kind |-> "line", line |-> line,
                  sentence_id |-> sentence_id ]
      /\ out' = [ op |-> "initialize_words_trie" ]
      /\ UNCHANGED << sentences_df, is_initialized, calls >>

SearchMatches ==
  \E user_input \in Queries :
    /\ LET r == search_matches(words_trie, sentences_df, is_initialized,
                               user_input)
       IN  out' = [ op |-> "search_matches", user_input |-> user_input,
                    raised |-> r.raised, ret |-> r.df ]
    /\ UNCHANGED << words_trie, sentences_df, is_initialized, calls, inp >>

GetAutocompleteSuggestions ==
  \E user_input \in Queries :
    /\ LET r == get_autocomplete_suggestions(words_trie, sentences_df,
                                             is_initialized, user_input)
       IN  out' = [ op |-> "get_autocomplete_suggestions",
                    user_input |-> user_input,
                    raised |-> FALSE, ret |-> r.ret,
                    error_logged |-> r.error_logged ]
    /\ UNCHANGED << words_trie, sentences_df, is_initialized, calls, inp >>

\* the inputs handed to filter_sentences_for_short_input on its own:
\* "qqq a", "tes d"
ShortInputs ==
  { << "q", "q", "q", " ", "a" >>,
    << "t", "e", "s", " ", "d" >> }

FilterSentencesForShortInput ==
  \E input_string \in ShortInputs :
    /\ out' = [ op |-> "filter_sentences_for_short_input",
                input_string |-> input_string,
                ret |-> filter_sentences_for_short_input(words_trie,
                                                         input_string) ]
    /\ UNCHANGED << words_trie, sentences_df, is_initialized, calls, inp >>

\* the queries handed to calculate_scores on its own: "A.", "a b", "- -"
ScorerQueries ==
  { << "A", "." >>, << "a", " ", "b" >>, << "-", " ", "-" >> }

\* the words handed to the queries of the Trie of the system: "c", " TEST"
LookupWords ==
  { << "c" >>, << " ", "T", "E", "S", "T" >> }

\* the targets and distances of fuzzy_search: "tes" within 1, "ab" within 2
FuzzyLookups ==
  { [ word |-> << "t", "e", "s" >>, max_distance |-> 1 ],
    [ word |-> << "a", "b" >>, max_distance |-> 2 ] }

\* calculate_scores on the whole corpus
CalculateScores ==
  \E user_input \in ScorerQueries :
    /\ out' = [ op |-> "calculate_scores", user_input |-> user_input,
                ret |-> calculate_scores(user_input, sentences_df) ]
    /\ UNCHANGED << words_trie, sentences_df, is_initialized, calls, inp >>

\* The queries of the Trie are open to every holder of the system, before
\* and after the load.
SystemSearch ==
  \E word \in LookupWords :
    /\ out' = [ op |-> "search", word |-> word,
                ret |-> search(words_trie, word) ]
    /\ UNCHANGED << words_trie, sentences_df, is_initialized, calls, inp >>

SystemGetSentencesOfWord ==
  \E word \in LookupWords :
    /\ out' = [ op |-> "get_sentences_of_word", word |-> word,
                ret |-> get_sentences_of_word(words_trie, word) ]
    /\ UNCHANGED << words_trie, sentences_df, is_initialized, calls, inp >>

SystemPrefixSearch ==
  \E prefix \in LookupWords :
    /\ out' = [ op |-> "prefix_search", prefix |-> prefix,
                ret |-> prefix_search(words_trie, prefix) ]
    /\ UNCHANGED << words_trie, sentences_df, is_initialized, calls, inp >>

SystemFuzzySearch ==
  \E q \in FuzzyLookups :
    /\ out' = [ op |-> "fuzzy_search", word |-> q.word,
                max_distance |-> q.max_distance,
                ret |-> fuzzy_search(words_trie, q.word, q.max_distance) ]
    /\ UNCHANGED << words_trie, sentences_df, is_initialized, calls, inp >>

Next ==
  \/ LoadDataFiles
  \/ LoadMissingDirectory
  \/ SearchMatches
  \/ GetAutocompleteSuggestions
  \/ CalculateScores
  \/ SystemSearch
  \/ SystemGetSentencesOfWord
  \/ SystemPrefixSearch
  \/ SystemFuzzySearch
  \/ TrieGetStatistics
  \/ FilterSentencesForShortInput
  \/ InitializeWordsTrie
  \/ ImportMain

Spec == Init /\ [][Next]_vars

\* The Trie indexes word for sentence sentence_id: the node at the end of
\* the path of word is an end of word and has the sentence in its map.
Indexes(word, sentence_id) ==
  /\ word # <<>>
  /\ word \in DOMAIN words_trie.root
  /\ words_trie.root[word].is_end_of_word
  /\ sentence_id \in DOMAIN words_trie.root[word].sentences_id

Letters == Range(Lowercase)

\* the single-edit variants of w: one letter inserted at any place (the end
\* included), one character replaced by a letter, one character deleted
SingleEdits(w) ==
  { SubSeq(w, 1, i) \o << c >> \o SubSeq(w, i + 1, Len(w)) :
      i \in 0..Len(w), c \in Letters }
  \cup { [ w EXCEPT ![i] = c ] : i \in 1..Len(w), c \in Letters }
  \cup { SubSeq(w, 1, i - 1) \o SubSeq(w, i + 1, Len(w)) : i \in 1..Len(w) }

\* the words of the last query as search_matches counts them
Tokens == split(strip(lower(out.user_input)))

\* the row labels of a frame
Labels(df) == { df[i].index : i \in DOMAIN df }

\* C5: short path.  For a query of one word, w after preprocessing, the
\* candidates search_matches returns are exactly the rows with index id - 1
\* of the sentences id for which the Trie indexes w or a single-edit variant
\* of w; with "test" in sentence 5, the query "tes" has index 4 among them.
C5_ShortPath ==
  (out.op = "search_matches" /\ ~out.raised /\ Len(Tokens) = 1
     /\ preprocess_sentence(out.user_input) # <<>>) =>
    LET w == preprocess_sentence(out.user_input)
        ids == { id \in 1..Len(sentences_df) :
                   \E v \in { w } \cup SingleEdits(w) : Indexes(v, id) }
    IN  /\ Labels(out.ret) = { id - 1 : id \in ids }
        /\ out.ret = SelectSeq(sentences_df, LAMBDA row : row.index + 1 \in ids)
        /\ (w = << "t", "e", "s" >> /\ Len(sentences_df) >= 5
               /\ Indexes(<< "t", "e", "s", "t" >>, 5))
             => 4 \in Labels(out.ret)

\* C5 witness: with "Test b c d" as sentence 5, search_matches("tes") has
\* returned the row of index 4.
C5_Witness ==
  /\ out.op = "search_matches"
  /\ out.user_input = << "t", "e", "s" >>
  /\ Len(sentences_df) = 5
  /\ Indexes(<< "t", "e", "s", "t" >>, 5)
  /\ ~Indexes(<< "t", "e", "s" >>, 5)
  /\ Labels(out.ret) = { 4 }

\* The running count of C6 for sentence id after the first n query words:
\* count 0 stands for no count yet.
RECURSIVE RunningCount(_, _, _)
RunningCount(words, id, n) ==
  IF n = 0 THEN [ disqualified |-> FALSE, count |-> 0 ]
  ELSE LET c == RunningCount(words, id, n - 1)
           i == n - 1
       IN  IF ~Indexes(words[n], id) THEN c
           ELSE IF i = 0 THEN [ disqualified |-> FALSE, count |-> 1 ]
           ELSE IF i = 1 THEN [ c EXCEPT !.count = @ + 1 ]
           ELSE IF ~c.disqualified /\ c.count >= i - 1
             THEN [ c EXCEPT !.count = @ + 1 ]
           ELSE [ disqualified |-> TRUE, count |-> 0 ]

\* C6: long path.  For a query of two or more words the candidates are
\* exactly the rows with index id - 1 of the sentences id whose running
\* count over the exact Trie lookups of the query words in order (word 0
\* sets it to 1, word 1 increments or initialises it, word i >= 2 increments
\* it if it is >= i - 1 and disqualifies the sentence for good otherwise)
\* ends not disqualified and >= wordCount - 1.
C6_LongPath ==
  (out.op = "search_matches" /\ ~out.raised /\ Len(Tokens) >= 2) =>
    LET n == Len(Tokens)
        ids == { id \in 1..Len(sentences_df) :
                   LET c == RunningCount(Tokens, id, n)
                   IN  ~c.disqualified /\ c.count >= n - 1 }
    IN  /\ Labels(out.ret) = { id - 1 : id \in ids }
        /\ out.ret = SelectSeq(sentences_df, LAMBDA row : row.index + 1 \in ids)

\* C6 witness: for "a b c d" one sentence was disqualified at the third word
\* and holds the fourth, one sentence without the first word is returned,
\* and one sentence that was counted but ends below wordCount - 1 is not.
C6_Witness ==
  /\ out.op = "search_matches"
  /\ Len(Tokens) = 4
  /\ \E id \in 1..Len(sentences_df) :
       /\ RunningCount(Tokens, id, 3).disqualified
       /\ Indexes(Tokens[4], id)
       /\ id - 1 \notin Labels(out.ret)
  /\ \E id \in 1..Len(sentences_df) :
       /\ ~Indexes(Tokens[1], id)
       /\ id - 1 \in Labels(out.ret)
  /\ \E id \in 1..Len(sentences_df) :
       /\ ~RunningCount(Tokens, id, 4).disqualified
       /\ RunningCount(Tokens, id, 4).count \in 1..2
       /\ id - 1 \notin Labels(out.ret)

\* C7: origin attribution.  Every entry returned by
\* get_autocomplete_suggestions carries the origin file the Corpus records
\* for a sentence with the text of the entry.
C7_Origin ==
  out.op = "get_autocomplete_suggestions" =>
    \A i \in DOMAIN out.ret :
      \E j \in DOMAIN sentences_df :
        /\ sentences_df[j].sentence = out.ret[i].sentence
        /\ sentences_df[j].file_path = out.ret[i].file_path

\* C8: no batch abort.  When the scorer returns k >= 1 suggestions for the
\* query, get_autocomplete_suggestions returns k entries in the same order
\* with ranks 1..k.
C8_NoBatchAbort ==
  (out.op = "get_autocomplete_suggestions" /\ is_initialized) =>
    LET top == calculate_scores(
                 out.user_input,
                 search_matches(words_trie, sentences_df, is_initialized,
                                out.user_input).df)
    IN  Len(top) >= 1 =>
          /\ Len(out.ret) = Len(top)
          /\ \A i \in DOMAIN top :
               /\ out.ret[i].sentence = top[i].source_text
               /\ out.ret[i].score = top[i].score
               /\ out.ret[i].rank = i

\* C9: uninitialized use.  What get_autocomplete_suggestions gives back
\* before the load differs from the empty list of a query without matches:
\* it raises, or returns something else than the empty list.
C9_UninitializedReported ==
  (out.op = "get_autocomplete_suggestions" /\ ~is_initialized) =>
    (out.raised \/ out.ret # <<>>)

\* C10 as stated: on an initialized system search_matches returns an empty
\* frame for every query that is empty after preprocessing.
C10_AsStated ==
  (out.op = "search_matches" /\ is_initialized
     /\ preprocess_sentence(out.user_input) = <<>>) =>
    (~out.raised /\ out.ret = <<>>)

\* C10 amended: on an initialized system, for a query that is empty after
\* preprocessing, calculate_scores and get_autocomplete_suggestions return
\* the empty list and no error, and so does search_matches when the query
\* has fewer than two white-space separated tokens; with two or more tokens
\* (all punctuation) search_matches returns the long-path candidates of
\* these tokens.  For every query, calculate_scores on an empty candidate
\* set and get_autocomplete_suggestions with no candidates return the empty
\* list and no error.
C10_EmptyInput ==
  is_initialized =>
    /\ (out.op \in { "search_matches", "get_autocomplete_suggestions" }
          /\ preprocess_sentence(out.user_input) = <<>>) =>
         /\ ~out.raised
         /\ calculate_scores(out.user_input, sentences_df) = <<>>
         /\ out.op = "get_autocomplete_suggestions" =>
              (out.ret = <<>> /\ ~out.error_logged)
         /\ (out.op = "search_matches" /\ Len(Tokens) < 2) => out.ret = <<>>
         /\ (out.op = "search_matches" /\ Len(Tokens) >= 2) =>
              out.ret = rows_in(sentences_df,
                          filter_sentences_for_long_input(words_trie, Tokens))
    /\ out.op \in { "search_matches", "get_autocomplete_suggestions" } =>
         /\ calculate_scores(out.user_input, <<>>) = <<>>
         /\ (out.op = "get_autocomplete_suggestions"
               /\ search_matches(words_trie, sentences_df, is_initialized,
                                 out.user_input).df = <<>>) =>
              (out.ret = <<>> /\ ~out.raised /\ ~out.error_logged)

\* C10 witness: the query "- -" has candidates ("-" is indexed), and
\* get_autocomplete_suggestions has returned the empty list for it without
\* an error.
C10_Witness ==
  /\ is_initialized
  /\ out.op = "get_autocomplete_suggestions"
  /\ out.user_input = << "-", " ", "-" >>
  /\ search_matches(words_trie, sentences_df, is_initialized,
                    out.user_input).df # <<>>
  /\ out.ret = <<>>
  /\ ~out.error_logged

(***************************************************************************)
(* The Trie as a dictionary (WordsSpec): prefix and fuzzy search.          *)
(***************************************************************************)
\* C11: prefix completeness.  For a non-empty prefix, prefix_search returns
\* exactly the distinct normalized words inserted since the last clear that
\* start with the normalized prefix (lower-cased and trimmed as the words
\* are), each once, and the empty list when there is none; after cat, car,
\* cup and dog, prefix_search("ca") is {cat, car}.
C11_PrefixCompleteness ==
  (out.op = "prefix_search" /\ out.prefix # <<>>) =>
    LET p == strip(lower(out.prefix))
        expected == { w \in InsertedWords : StartsWith(w, p) }
    IN  /\ Range(out.ret) = expected
        /\ Len(out.ret) = Cardinality(expected)
        /\ (/\ InsertedWords = { << "c", "a", "t" >>, << "c", "a", "r" >>,
                                 << "c", "u", "p" >>, << "d", "o", "g" >> }
            /\ out.prefix = << "c", "a" >>)
             => Range(out.ret) = { << "c", "a", "t" >>, << "c", "a", "r" >> }

\* C11 witness: cat, car, cup and dog were inserted and prefix_search("ca")
\* has returned cat and car, once each.
C11_Witness ==
  /\ InsertedWords = { << "c", "a", "t" >>, << "c", "a", "r" >>,
                       << "c", "u", "p" >>, << "d", "o", "g" >> }
  /\ out.op = "prefix_search"
  /\ out.prefix = << "c", "a" >>
  /\ Len(out.ret) = 2
  /\ Range(out.ret) = { << "c", "a", "t" >>, << "c", "a", "r" >> }

\* C12: fuzzy bound.  fuzzy_search(w, d) returns exactly the distinct words
\* inserted since the last clear whose edit distance to w, as given, is at
\* most d, each once.
C12_FuzzyBound ==
  out.op = "fuzzy_search" =>
    LET expected == { w \in InsertedWords :
                        EditDistance(w, out.word) <= out.max_distance }
    IN  /\ Range(out.ret) = expected
        /\ Len(out.ret) = Cardinality(expected)

\* C12 witness: with cat (twice), car and cup inserted, fuzzy_search("cat",
\* 1) has returned cat and car and left out cup, which is at distance 2.
C12_Witness ==
  /\ InsertedWords = { << "c", "a", "t" >>, << "c", "a", "r" >>,
                       << "c", "u", "p" >> }
  /\ Len(calls) = 4
  /\ out.op = "fuzzy_search"
  /\ out.word = << "c", "a", "t" >>
  /\ out.max_distance = 1
  /\ Len(out.ret) = 2
  /\ Range(out.ret) = { << "c", "a", "t" >>, << "c", "a", "r" >> }
  /\ EditDistance(<< "c", "u", "p" >>, out.word) = 2

(***************************************************************************)
(* The system (Spec): the structures after the load.                       *)
(***************************************************************************)
\* the lines of the files that are read (.txt, no error), trimmed, that hold
\* a letter, in the order of the walk, each with its file
RECURSIVE QualifyingLines(_)
QualifyingLines(files) ==
  IF files = <<>> THEN <<>>
  ELSE LET f == files[1]
           lines == split_on(f.content, "\n")
           kept ==
             SelectSeq([ i \in DOMAIN lines |->
                           [ line |-> strip(lines[i]), file |-> f.file ] ],
                       LAMBDA l : \E i \in DOMAIN l.line : isalpha(l.line[i]))
       IN  (IF f.readable /\ endswith(f.file, << ".", "t", "x", "t" >>)
              THEN kept ELSE <<>>)
             \o QualifyingLines(Tail(files))

\* the 0-based positions at which word occurs in words, in increasing order
PositionsOf(word, words) ==
  LET at == { j \in DOMAIN words : lower(words[j]) = word }
  IN  [ n \in 1..Cardinality(at) |->
          (CHOOSE j \in at : Cardinality({ i \in at : i <= j }) = n) - 1 ]

\* C14: id lock-step.  After load_data_files, also when files were skipped,
\* the k-th qualifying line is row k - 1 of the Corpus, each of its words is
\* indexed in the Trie under sentence id k with its 0-based positions, and
\* every sentence id of the Trie lies in 1..number of rows.
C14_IdLockStep ==
  (out.op = "load_data_files" /\ ~out.raised) =>
    LET q == QualifyingLines(inp.files)
    IN  /\ Len(sentences_df) = Len(q)
        /\ \A k \in DOMAIN q :
             /\ sentences_df[k] = [ index |-> k - 1, sentence |-> q[k].line,
                                    file_path |-> q[k].file ]
             /\ LET words == split(q[k].line)
                IN  \A j \in DOMAIN words :
                      /\ Indexes(lower(words[j]), k)
                      /\ words_trie.root[lower(words[j])].sentences_id[k]
                           = PositionsOf(lower(words[j]), words)
        /\ \A node \in DOMAIN words_trie.root :
             DOMAIN words_trie.root[node].sentences_id
               \subseteq 1..Len(sentences_df)

(***************************************************************************)
(* The Trie on its own (TrieSpec): the invariants of the tree.             *)
(***************************************************************************)
\* the non-empty prefixes of w
PrefixesOf(w) == { SubSeq(w, 1, n) : n \in 1..Len(w) }

\* the nodes reachable from the root along the children lists
RECURSIVE ReachableFrom(_, _)
ReachableFrom(t, node) ==
  { node } \cup UNION { ReachableFrom(t, Append(node, t.root[node].children[k])) :
                          k \in DOMAIN t.root[node].children }

\* C15: end-of-word invariant.  After any sequence of insert and clear
\* calls a node is flagged end of word iff a word inserted since the last
\* clear ends at it, its sentence-position map is non-empty only if it is
\* flagged, and the root is never flagged.
C15_EndOfWord ==
  /\ \A node \in DOMAIN words_trie.root :
       /\ words_trie.root[node].is_end_of_word <=> node \in InsertedWords
       /\ DOMAIN words_trie.root[node].sentences_id # {}
            => words_trie.root[node].is_end_of_word
  /\ ~words_trie.root[<<>>].is_end_of_word

\* C15 witness: "cat" and "ca" were inserted: the node of "ca" is flagged
\* and has a child, the node of "c" is neither flagged nor has a map.
C15_Witness ==
  /\ InsertedWords = { << "c", "a", "t" >>, << "c", "a" >> }
  /\ words_trie.root[<< "c", "a" >>].is_end_of_word
  /\ words_trie.root[<< "c", "a" >>].children = << "t" >>
  /\ ~words_trie.root[<< "c" >>].is_end_of_word
  /\ DOMAIN words_trie.root[<< "c" >>].sentences_id = {}

\* C16: node-count invariant.  After any sequence of insert and clear calls
\* total_nodes is 1 plus the number of distinct non-empty prefixes of the
\* normalized words inserted since the last clear, and that is the number
\* of nodes reachable from the root.
C16_NodeCount ==
  /\ words_trie.total_nodes
       = 1 + Cardinality(UNION { PrefixesOf(w) : w \in InsertedWords })
  /\ words_trie.total_nodes = Cardinality(ReachableFrom(words_trie, <<>>))
  /\ get_node_count(words_trie) = words_trie.total_nodes

\* C16 witness: "cat" and "Car " share the path "ca": four nodes and the
\* root.
C16_Witness ==
  /\ InsertedWords = { << "c", "a", "t" >>, << "c", "a", "r" >> }
  /\ words_trie.total_nodes = 5

\* C17: insertion counter.  total_words is the number of insert calls since
\* the last clear whose normalized word is not empty, a repeated word
\* counted each time.
C17_InsertionCounter ==
  words_trie.total_words
    = Cardinality({ i \in DOMAIN calls : Effective(calls[i]) })

\* C17 witness: the same word was inserted twice and counted twice.
C17_Witness ==
  /\ Len(calls) = 2
  /\ Cardinality(InsertedWords) = 1
  /\ Effective(calls[1])
  /\ Effective(calls[2])
  /\ words_trie.total_words = 2

\* C18: get_word_count returns the number of unique words of the Trie, the
\* number of distinct words for which search succeeds.
C18_UniqueWordCount ==
  get_word_count(words_trie)
    = Cardinality({ w \in DOMAIN words_trie.root :
                      search(words_trie, w).found })

\* C19: empty insert is a no-op.  An insert call whose word is empty or
\* only whitespace leaves the whole Trie (nodes, flags, position lists,
\* total_words, total_nodes) as it was.
C19_EmptyInsertNoOp ==
  [][ (out'.op = "insert" /\ Len(calls') = Len(calls) + 1
         /\ ~Effective(calls'[Len(calls')]))
        => words_trie' = words_trie ]_vars

\* C19 witness: a word and then a blank word were inserted; the Trie holds
\* the one word, counted once, and no flag on the root.
C19_Witness ==
  /\ out.op = "insert"
  /\ Len(calls) = 2
  /\ Effective(calls[1])
  /\ calls[2].word = << " " >>
  /\ words_trie.total_words = 1
  /\ words_trie = insert(NewTrie, calls[1].word, calls[1].sentence_id,
                         calls[1].position)

\* the Trie a freshly constructed one becomes by the first n calls of log
RECURSIVE Replay(_, _)
Replay(log, n) ==
  IF n = 0 THEN NewTrie
  ELSE insert(Replay(log, n - 1), log[n].word, log[n].sentence_id,
              log[n].position)

\* C20: clear resets.  Whatever came before, right after clear the Trie is
\* that of a fresh construction: total_words 0, total_nodes 1, and search,
\* get_sentences_of_word, prefix_search and fuzzy_search find nothing for
\* any word; and at any time the Trie is what a new Trie becomes by the
\* inserts made since the last clear.
C20_ClearResets ==
  /\ calls = <<>> =>
       /\ words_trie = NewTrie
       /\ words_trie.total_words = 0
       /\ words_trie.total_nodes = 1
       /\ \A w \in QueryWords \cup RawWords \cup DictionaryWords :
            /\ ~search(words_trie, w).found
            /\ ~get_sentences_of_word(words_trie, w).found
            /\ prefix_search(words_trie, w) = <<>>
            /\ \A d \in Distances : fuzzy_search(words_trie, w, d) = <<>>
  /\ words_trie = Replay(calls, Len(calls))

\* C20 witness: clear was called on a Trie with nodes below the root and
\* has left the Trie of a fresh construction.
C20_Witness ==
  /\ out.op = "clear"
  /\ out.nodes_before > 1
  /\ calls = <<>>
  /\ words_trie = NewTrie
  /\ prefix_search(words_trie, << "c" >>) = <<>>

(***************************************************************************)
(* C21: the variant generator.                                             *)
(***************************************************************************)
\* the words that differ from w in one position, where they have another
\* lowercase letter
Substitutions(w) ==
  { [ w EXCEPT ![i] = c ] : i \in 1..Len(w), c \in Letters } \ { w }

\* the words obtained by leaving one character of w out
Deletions(w) ==
  { SubSeq(w, 1, i - 1) \o SubSeq(w, i + 1, Len(w)) : i \in 1..Len(w) }

\* the words obtained by putting one lowercase letter at a position 0..L
Insertions(w) ==
  { SubSeq(w, 1, i) \o << c >> \o SubSeq(w, i + 1, Len(w)) :
      i \in 0..Len(w), c \in Letters }

\* the single-edit variants of w as the generator is specified
Variants(w) ==
  Substitutions(w) \cup Insertions(w)
  \cup (IF Len(w) > 1 THEN Deletions(w) ELSE {})

\* C21 as stated: for a non-empty lowercase word w, get_word_variations(w)
\* returns exactly the set of single-edit variants of w (substitutions by a
\* different letter, deletions when L > 1, insertions at 0..L).
C21_AsStated ==
  (out.op = "get_word_variations" /\ out.word # <<>>)
    => out.ret = Variants(out.word)

\* C21 amended: for a non-empty lowercase word w, get_word_variations(w)
\* returns the word w itself together with exactly the single-edit variants
\* of w (substitutions by a different letter, deletions when L > 1,
\* insertions at 0..L), and nothing else.
C21_WordAndVariants ==
  (out.op = "get_word_variations" /\ out.word # <<>>)
    => /\ out.ret = { out.word } \cup Variants(out.word)
       /\ out.word \notin Variants(out.word)

\* the generator has run on "ab" and returned, among others, "ab" itself,
\* the deletion "b", the insertion "aab", the substitution "bb" and the
\* append "abz", but not the two-edit word "abab"
C21_Witness ==
  /\ out.op = "get_word_variations"
  /\ out.word = << "a", "b" >>
  /\ { << "a", "b" >>, << "b" >>, << "a", "a", "b" >>, << "b", "b" >>,
       << "a", "b", "z" >> } \subseteq out.ret
  /\ << "a", "b", "a", "b" >> \notin out.ret

(***************************************************************************)
(* C22: the short search on several words.                                 *)
(***************************************************************************)
\* the match set of the word w: the sentences for which the Trie indexes w
\* or a single-edit variant of w
MatchSet(w) ==
  { id \in 1..Len(sentences_df) :
      \E v \in { w } \cup SingleEdits(w) : Indexes(v, id) }

\* C22: given an input of several words, filter_sentences_for_short_input
\* returns (as id minus 1) exactly the sentences in the match set of every
\* word, the intersection of the per-word sets; the result is empty when
\* the match set of some word is empty.
C22_Intersection ==
  LET words == split(preprocess_sentence(out.input_string))
  IN  (out.op = "filter_sentences_for_short_input" /\ Len(words) >= 2) =>
        /\ out.ret =
             { id - 1 : id \in { i \in 1..Len(sentences_df) :
                 \A k \in 1..Len(words) : i \in MatchSet(words[k]) } }
        /\ (\E k \in 1..Len(words) : MatchSet(words[k]) = {})
             => out.ret = {}

(***************************************************************************)
(* C23 to C25: the score, the penalty and the offset of one scoring.       *)
(***************************************************************************)
\* the penalty table of section 4: the entry of an edit type at a position
PenaltyTable(type, i) ==
  IF type = SUBSTITUTION
    THEN (IF i = 0 THEN 5 ELSE IF i = 1 THEN 4 ELSE IF i = 2 THEN 3
          ELSE IF i = 3 THEN 2 ELSE 1)
    ELSE (IF i = 0 THEN 10 ELSE IF i = 1 THEN 8 ELSE IF i = 2 THEN 6
          ELSE IF i = 3 THEN 4 ELSE 2)

\* the edit type of a query word matched to a candidate word by one edit
EditType(user_word, sentence_word) ==
  IF Len(user_word) = Len(sentence_word) THEN SUBSTITUTION
  ELSE IF Len(user_word) < Len(sentence_word) THEN DELETION
  ELSE ADDITION

\* the query words (by their place in the query) matched exactly, and those
\* matched by an edit, in the last scoring
ExactMatches ==
  { k \in DOMAIN out.walk.matched :
      out.walk.matched[k].index >= 0 /\ ~out.walk.matched[k].edit }

EditMatches == { k \in DOMAIN out.walk.matched : out.walk.matched[k].edit }

\* the cursor before the k-th query word: the index of the match before it
Cursor(k) == IF k = 1 THEN 0 ELSE out.walk.matched[k - 1].index

\* the sum of 2 * len(word) over the query words of the set K
RECURSIVE ExactSum(_)
ExactSum(K) ==
  IF K = {} THEN 0
  ELSE LET k == CHOOSE x \in K : TRUE
       IN  2 * Len(out.user_words[k]) + ExactSum(K \ { k })

\* the last scoring has returned a suggestion
Scored == out.op = "single" /\ ~out.ret.is_none

\* C23: for a candidate that is not disqualified, the score is the sum of
\* 2 * len(word) over the query words matched exactly, minus the penalty of
\* the single edit if one was used (an entry of the table for its edit type
\* at an index of the matched word), plus 2 * n - 1 for the n words of the
\* preprocessed candidate; every query word is matched, the cursor advances
\* to each match index, and an exact match is the first occurrence of the
\* word at or after the cursor.
C23_ScoreFormula ==
  Scored =>
    LET m == out.walk.matched
        n == Len(out.sentence_words)
        penalties ==
          IF EditMatches = {} THEN { 0 }
          ELSE LET k == CHOOSE x \in EditMatches : TRUE
                   sentence_word == out.sentence_words[m[k].index + 1]
               IN  { PenaltyTable(EditType(out.user_words[k], sentence_word), p) :
                       p \in { i \in 0..(n - 1) :
                                 out.sentence_words[i + 1] = sentence_word } }
    IN  /\ Len(m) = Len(out.user_words)
        /\ Cardinality(EditMatches) <= 1
        /\ \A k \in DOMAIN m :
             /\ m[k].index >= Cursor(k)
             /\ m[k].index < n
             /\ k \in ExactMatches =>
                  /\ out.sentence_words[m[k].index + 1] = out.user_words[k]
                  /\ \A i \in Cursor(k)..(m[k].index - 1) :
                       out.sentence_words[i + 1] # out.user_words[k]
             /\ k \in EditMatches =>
                  \A i \in Cursor(k)..(n - 1) :
                    out.sentence_words[i + 1] # out.user_words[k]
        /\ \E penalty \in penalties :
             out.ret.score = ExactSum(ExactMatches) - penalty + (2 * n - 1)

\* "a bb" scored against "abc a Ab.": "a" exactly at index 1 (+2), "bb" by
\* a substitution to "ab" at index 2 (-3), three words (+5): score 4
C23_Witness ==
  /\ Scored
  /\ out.user_words = << << "a" >>, << "b", "b" >> >>
  /\ out.sentence_words = << << "a", "b", "c" >>, << "a" >>, << "a", "b" >> >>
  /\ out.walk.matched = << [ index |-> 1, edit |-> FALSE ],
                           [ index |-> 2, edit |-> TRUE ] >>
  /\ out.ret.score = 4

\* C24: when a query word is matched by an edit to the candidate word at
\* index i, the first word at or after the cursor at edit distance 1, the
\* penalty subtracted is the table entry for the edit type at position i,
\* also when the same word occurs earlier in the candidate sentence.
C24_PenaltyPosition ==
  (Scored /\ EditMatches # {}) =>
    LET m == out.walk.matched
        n == Len(out.sentence_words)
        k == CHOOSE x \in EditMatches : TRUE
        i == m[k].index
        sentence_word == out.sentence_words[i + 1]
    IN  /\ EditDistance(out.user_words[k], sentence_word) = 1
        /\ \A j \in Cursor(k)..(i - 1) :
             EditDistance(out.user_words[k], out.sentence_words[j + 1]) # 1
        /\ out.ret.score =
             ExactSum(ExactMatches)
               - PenaltyTable(EditType(out.user_words[k], sentence_word), i)
               + (2 * n - 1)

\* C25: the offset of a suggestion is the 1-based index of the word matched
\* exactly by the first query word, or 0 when the first query word had no
\* exact match; later query words never change it, also when one of them is
\* equal to the first.
C25_Offset ==
  Scored =>
    out.ret.offset = IF 1 \in ExactMatches
                       THEN out.walk.matched[1].index + 1
                       ELSE 0

(***************************************************************************)
(* C26: the classification of an edit.                                     *)
(***************************************************************************)
\* C26: calculate_change_type(query word, sentence word) returns a type iff
\* the edit distance of the two words is exactly 1: substitution when they
\* have the same length (they differ in one position), deletion when the
\* query word is shorter (it is the sentence word without one character),
\* addition when it is longer (the sentence word is the query word without
\* one character); for a distance of 0 or of 2 and more it returns no type.
C26_EditClassification ==
  out.op = "calculate_change_type" =>
    LET q == out.user_word
        w == out.sentence_word
    IN  /\ (out.ret # NoChange) <=> (EditDistance(q, w) = 1)
        /\ (out.ret = SUBSTITUTION) <=>
             (Len(q) = Len(w) /\ Cardinality({ i \in 1..Len(q) : q[i] # w[i] }) = 1)
        /\ (out.ret = DELETION) <=> (Len(q) < Len(w) /\ q \in Deletions(w))
        /\ (out.ret = ADDITION) <=> (Len(q) > Len(w) /\ w \in Deletions(q))
        /\ out.ret \in { NoChange, SUBSTITUTION, DELETION, ADDITION }

\* the query word "ab" against the sentence word "aab" is a deletion
C26_Witness ==
  /\ out.op = "calculate_change_type"
  /\ out.user_word = << "a", "b" >>
  /\ out.sentence_word = << "a", "a", "b" >>
  /\ out.ret = DELETION

(***************************************************************************)
(* C30: the two edit distances.                                            *)
(***************************************************************************)
\* C30: Trie._levenshtein_distance and _basic_levenshtein_distance return
\* the same value for every pair of strings, the empty strings included:
\* the least number of single-character insertions, deletions and
\* substitutions (2 for two adjacent characters exchanged), the same for
\* the pair in the other order.
C30_EditDistance ==
  out.op \in { "_levenshtein_distance", "_basic_levenshtein_distance" } =>
    /\ out.ret = EditDistance(out.s1, out.s2)
    /\ levenshtein_distance(out.s1, out.s2) = out.ret
    /\ basic_levenshtein_distance(out.s1, out.s2) = out.ret
    /\ levenshtein_distance(out.s2, out.s1) = out.ret
    /\ basic_levenshtein_distance(out.s2, out.s1) = out.ret
    /\ (out.s1 = << "a", "b" >> /\ out.s2 = << "b", "a" >>) => out.ret = 2

\* the distance of the Trie from "ab" to "ba" is 2
C30_Witness ==
  /\ out.op = "_levenshtein_distance"
  /\ out.s1 = << "a", "b" >>
  /\ out.s2 = << "b", "a" >>
  /\ out.ret = 2

(***************************************************************************)
(* C27: the average word length of get_statistics.                         *)
(***************************************************************************)
\* the total length of the words of the set W
RECURSIVE TotalLength(_)
TotalLength(W) ==
  IF W = {} THEN 0
  ELSE LET w == CHOOSE x \in W : TRUE
       IN  Len(w) + TotalLength(W \ { w })

\* C27: get_statistics reports as average_word_length the total length of
\* the words stored in the Trie divided by total_words, 0.0 for an empty
\* Trie; a Trie in which every inserted word is distinct and has length L
\* reports L.  (The quotient is stated as a product.)
C27_AverageWordLength ==
  out.op = "get_statistics" =>
    /\ out.ret.average_word_length * out.ret.total_words
         = TotalLength(InsertedWords)
    /\ words_trie.total_words = 0 => out.ret.average_word_length = 0
    /\ \A L \in 1..3 :
         (/\ InsertedWords # {}
          /\ Cardinality(InsertedWords) = words_trie.total_words
          /\ \A w \in InsertedWords : Len(w) = L)
           => out.ret.average_word_length = L

(***************************************************************************)
(* C28: the long search characterized.                                     *)
(***************************************************************************)
\* the places of the query whose word the Trie does not index for sentence
\* id
Missing(words, id) == { k \in DOMAIN words : ~Indexes(words[k], id) }

\* C28: for a query of n >= 2 words a sentence is a candidate of the long
\* search iff at most one of the n places of the query holds a word that
\* the Trie does not index for the sentence (a repeated word counts once per
\* place); the order of the words in the sentence plays no role, and a
\* sentence that is disqualified on the way misses two places or more, so
\* the disqualification never changes which sentences qualify.
C28_LongPathCharacterized ==
  (out.op = "search_matches" /\ ~out.raised /\ Len(Tokens) >= 2) =>
    /\ Labels(out.ret) =
         { id - 1 : id \in { i \in 1..Len(sentences_df) :
                               Cardinality(Missing(Tokens, i)) <= 1 } }
    /\ \A id \in 1..Len(sentences_df), n \in 1..Len(Tokens) :
         RunningCount(Tokens, id, n).disqualified
           => Cardinality(Missing(Tokens, id)) >= 2

\* for "a b c d": a sentence missing one place is returned, a sentence with
\* two places missing and never disqualified is not, and a sentence that was
\* disqualified is not
C28_Witness ==
  /\ out.op = "search_matches"
  /\ Len(Tokens) = 4
  /\ \E id \in 1..Len(sentences_df) :
       /\ Cardinality(Missing(Tokens, id)) = 1
       /\ id - 1 \in Labels(out.ret)
  /\ \E id \in 1..Len(sentences_df) :
       /\ Cardinality(Missing(Tokens, id)) = 2
       /\ ~RunningCount(Tokens, id, 4).disqualified
       /\ id - 1 \notin Labels(out.ret)
  /\ \E id \in 1..Len(sentences_df) :
       /\ RunningCount(Tokens, id, 4).disqualified
       /\ id - 1 \notin Labels(out.ret)

(***************************************************************************)
(* C29: the short search and the scorer agree.                             *)
(***************************************************************************)
\* the suggestions the scorer returns for the candidates of the last search
ScoredCandidates == calculate_scores(out.user_input, out.ret)

\* C29: for a query of one word every sentence selected by the short search
\* gets a finite score from the scorer, because a word of the preprocessed
\* sentence is the query word or at edit distance 1 from it; the scorer
\* returns min(5, number of candidates) suggestions.
C29_ShortCandidatesScored ==
  (out.op = "search_matches" /\ ~out.raised /\ Len(Tokens) = 1) =>
    LET user_sentence == preprocess_sentence(out.user_input)
        user_words == split(user_sentence)
    IN  /\ out.ret # <<>> => Len(user_words) = 1
        /\ \A k \in DOMAIN out.ret :
             /\ ~calculate_single_sentence_score(
                   user_words, out.ret[k].sentence, user_sentence).is_none
             /\ \E w \in Range(split(preprocess_sentence(out.ret[k].sentence))) :
                  EditDistance(user_words[1], w) <= 1
        /\ Len(ScoredCandidates) =
             (IF Len(out.ret) < 5 THEN Len(out.ret) ELSE 5)

====
